---------------------------- MODULE Spec2Model ----------------------------
(***************************************************************************)
(* A model of the meshtastic-irc bridge: the chat relay (IrcHandler), the  *)
(* two mesh transports (MeshtasticHandler over serial, MqttHandler over a  *)
(* broker), the two bounded relay queues between them and the orchestrator *)
(* (Bridge::run) that spawns the tasks and waits for either to end.        *)
(*                                                                         *)
(* Text is a TLA+ string, a payload is a sequence of byte values, a 32-bit *)
(* node id is the pair <<high 16 bits, low 16 bits>> (0xffffffff does not  *)
(* fit TLC's 32-bit integers).                                             *)
(***************************************************************************)
EXTENDS Integers, Sequences, FiniteSets, TLC

(***************************************************************************)
(* Bounds of the model.                                                    *)
(***************************************************************************)
\* Capacity of each relay queue.  bridge.rs:23-24 creates both with 100;
\* the model keeps the structure and scales the number down.
QueueCapacity == 2

\* How many events the chat network delivers in one run.
MaxChatEvents == 3

\* How many events the mesh side (radio stream or broker session) delivers.
MaxMeshEvents == 3

\* How many serial ports available_ports() lists at most.
MaxPorts == 3

(***************************************************************************)
(* Program constants.                                                      *)
(***************************************************************************)
\* PortNum::TextMessageApp, PortNum::RoutingApp (as i32)
TextMessageApp == 1
RoutingApp == 5

\* to: 0xffffffff
BroadcastAddr == <<65535, 65535>>

\* from: 0, filled by the device
ZeroNode == <<0, 0>>

\* The nickname the chat session currently holds (client.current_nickname()).
CurrentNickname == "bridge"

\* config.irc.channel
IrcChannel == "#mesh"

\* config.mqtt.topic; main.rs:144 gives the default
Topic == "meshtastic/2/e/#"

\* config.meshtastic.serial_port: None, and the path --serial-port or the
\* config file gives.
NoPort == "none"
ConfiguredPort == "/dev/ttyUSB9"

(***************************************************************************)
(* Text and bytes.                                                         *)
(***************************************************************************)
\* The code point of a one-character string (the characters the model uses
\* are all ASCII, one byte each in UTF-8).
Ord(c) ==
    CASE c = " " -> 32
      [] c = "-" -> 45
      [] c = "C" -> 67
      [] c = "I" -> 73
      [] c = "R" -> 82
      [] c = "[" -> 91
      [] c = "]" -> 93
      [] c = "a" -> 97
      [] c = "b" -> 98
      [] c = "h" -> 104
      [] c = "i" -> 105
      [] c = "o" -> 111
      [] c = "x" -> 120
      [] c = "y" -> 121

Chr(b) ==
    CASE b = 32 -> " "
      [] b = 45 -> "-"
      [] b = 67 -> "C"
      [] b = 73 -> "I"
      [] b = 82 -> "R"
      [] b = 91 -> "["
      [] b = 93 -> "]"
      [] b = 97 -> "a"
      [] b = 98 -> "b"
      [] b = 104 -> "h"
      [] b = 105 -> "i"
      [] b = 111 -> "o"
      [] b = 120 -> "x"
      [] b = 121 -> "y"

\* A conversion that loses the last byte of the text.
AsBytesTruncated(s) == [i \in 1..(Len(s) - 1) |-> Ord(SubSeq(s, i, i))]

\* str::as_bytes: the UTF-8 bytes of a text.
AsBytes(s) == [i \in 1..Len(s) |-> Ord(SubSeq(s, i, i))]

\* Whether std::str::from_utf8 accepts the bytes.  Every byte below 0x80 is a
\* one-byte character; the only other byte the model feeds in is 0xff, which
\* no UTF-8 sequence contains.
Utf8Valid(bytes) == \A i \in 1..Len(bytes) : bytes[i] < 128

RECURSIVE Utf8Text(_)
\* The text std::str::from_utf8 yields for valid bytes.
Utf8Text(bytes) ==
    IF bytes = <<>> THEN "" ELSE Chr(Head(bytes)) \o Utf8Text(Tail(bytes))

\* str::starts_with
StartsWith(s, prefix) ==
    /\ Len(s) >= Len(prefix)
    /\ SubSeq(s, 1, Len(prefix)) = prefix

\* str::contains
Contains(s, sub) ==
    \E i \in 1..(Len(s) - Len(sub) + 1) : SubSeq(s, i, i + Len(sub) - 1) = sub

\* char::to_lowercase of an ASCII character.
LowerChar(c) ==
    LET upper == "ABCDEFGHIJKLMNOPQRSTUVWXYZ"
        lower == "abcdefghijklmnopqrstuvwxyz"
        at == {i \in 1..26 : SubSeq(upper, i, i) = c}
    IN IF at = {} THEN c
       ELSE LET i == CHOOSE k \in at : TRUE IN SubSeq(lower, i, i)

RECURSIVE ToLowercase(_)
\* str::to_lowercase
ToLowercase(s) ==
    IF Len(s) = 0 THEN ""
    ELSE LowerChar(SubSeq(s, 1, 1)) \o ToLowercase(SubSeq(s, 2, Len(s)))

HexDigit(d) ==
    CASE d = 0 -> "0" [] d = 1 -> "1" [] d = 2 -> "2" [] d = 3 -> "3"
      [] d = 4 -> "4" [] d = 5 -> "5" [] d = 6 -> "6" [] d = 7 -> "7"
      [] d = 8 -> "8" [] d = 9 -> "9" [] d = 10 -> "a" [] d = 11 -> "b"
      [] d = 12 -> "c" [] d = 13 -> "d" [] d = 14 -> "e" [] d = 15 -> "f"

\* Four hex digits of a 16-bit word, leading zeros kept.
Hex4(w) ==
    HexDigit((w \div 4096) % 16) \o HexDigit((w \div 256) % 16)
        \o HexDigit((w \div 16) % 16) \o HexDigit(w % 16)

\* format!("{:04x}", ..) of the low half of the id only.
Hex04Low(node) == Hex4(node[2])

\* format!("{:08x}", node)
Hex08(node) == Hex4(node[1]) \o Hex4(node[2])

\* format!("[IRC-{}] {}", message.sender, message.content)
FormatIrc(sender, content) == "[IRC-" \o sender \o "] " \o content

\* format!("[mesh-{}]: {}", sender, text)
FormatMesh(sender, text) == "[mesh-" \o sender \o "]: " \o text


(***************************************************************************)
(* Records.                                                                *)
(***************************************************************************)
\* MeshPacket { .. Default::default() }
DefaultPacket ==
    [from |-> ZeroNode, to |-> ZeroNode, channel |-> 0, id |-> 0,
     want_ack |-> FALSE, variant |-> "none", portnum |-> 0,
     payload |-> <<>>, request_id |-> 0]

\* An event of the mesh side: a FromRadio of the serial stream, or the result
\* of one poll of the broker session.  Fields an event does not carry keep
\* their defaults.
DefaultEvent ==
    [kind |-> "none", packet |-> DefaultPacket, num |-> ZeroNode,
     has_user |-> FALSE, short_name |-> "", topic |-> "",
     decodes |-> FALSE, has_packet |-> FALSE]

\* No mesh event handled yet.
NoEvent == [DefaultEvent EXCEPT !.kind = "-"]

\* verify_meshtastic_port has not been called yet.
NoProbe == [port |-> NoPort, outcome |-> "-", verified |-> FALSE]

\* detect_meshtastic_port has not returned.
NoResult == [kind |-> "-", path |-> NoPort]

\* IrcMessage { sender, content }; n is the message's rank among the chat
\* messages the relay accepted (0: no message).
NoIrcMessage == [sender |-> "", content |-> "", n |-> 0]

\* What process_mesh_packet holds across `to_irc.send(message).await`: the
\* text, and the locals wants_ack, packet_id, from_node read after it.  n is
\* the text's rank among the texts the transport accepted (0: nothing).
NoForward ==
    [forward |-> FALSE, message |-> "", n |-> 0, wants_ack |-> FALSE,
     packet_id |-> 0, from_node |-> ZeroNode]

\* The broker client has neither subscribed nor published.
NoTopics == [subscribed |-> "", published |-> ""]

\* The last packet handed to the radio or the broker, and how the call ended.
NoTx == [kind |-> "none", packet |-> DefaultPacket, text |-> "", ok |-> FALSE]

(***************************************************************************)
(* The environment's alphabets.                                            *)
(***************************************************************************)
\* 0x0000abcd and 0x12345678
Nodes == {<<0, 43981>>, <<4660, 22136>>}

Channels == {0, 1}

PacketIds == {0, 7}

ShortNames == {"", "N1", "N2"}

\* The payloads of decoded packets: empty, a mesh user's text, the echo of a
\* relayed chat message, and bytes that are not UTF-8.
Payloads == {<<>>, AsBytes("hi"), AsBytes(FormatIrc("a", "x")), <<255>>}

\* A text-message packet of a mesh peer.
TextRx(f, c, w, i, p) ==
    [DefaultPacket EXCEPT !.from = f, !.to = BroadcastAddr, !.channel = c,
                          !.want_ack = w, !.id = i, !.variant = "decoded",
                          !.portnum = TextMessageApp, !.payload = p]

\* The packets a mesh peer can send: text of every payload on every channel
\* with every combination of want_ack and id, and packets that carry no
\* decoded text (another port, still encrypted, no payload variant).
RxPackets ==
    {TextRx(f, c, w, i, p) :
        f \in {<<0, 43981>>}, c \in Channels, w \in BOOLEAN, i \in PacketIds,
        p \in Payloads}
    \cup
    {TextRx(f, c, w, 7, AsBytes("hi")) :
        f \in Nodes \ {<<0, 43981>>}, c \in Channels, w \in BOOLEAN}
    \cup
    {[TextRx(<<0, 43981>>, c, TRUE, 7, AsBytes("hi")) EXCEPT
            !.variant = v, !.portnum = RoutingApp] :
        c \in Channels, v \in {"decoded", "encrypted", "none"}}

\* A packet in which a mesh peer announces itself: port 4 (NodeinfoApp), the
\* payload an encoded User whose short_name (field 3) is "N1".
NodeInfoRx(f, c) ==
    [TextRx(f, c, FALSE, 7, <<26, 2, 78, 49>>) EXCEPT !.portnum = 4]

\* The packets of the runs that exercise the whole relay: a plain text that
\* asks for an acknowledgement, and one that does not.
CorePackets ==
    {TextRx(<<0, 43981>>, c, TRUE, 7, AsBytes("hi")) : c \in Channels}
    \cup {TextRx(<<4660, 22136>>, c, FALSE, 0, AsBytes("hi")) : c \in Channels}

\* What the decoded-envelope stream of the serial device yields.
RadioEvents ==
    {[DefaultEvent EXCEPT !.kind = "packet", !.packet = p] : p \in RxPackets}
    \cup {[DefaultEvent EXCEPT !.kind = "node_info", !.num = f,
                               !.has_user = u, !.short_name = s] :
            f \in {<<0, 43981>>}, u \in BOOLEAN, s \in ShortNames}
    \cup {[DefaultEvent EXCEPT !.kind = "node_info", !.num = <<4660, 22136>>,
                               !.has_user = TRUE, !.short_name = "N2"]}
    \cup {[DefaultEvent EXCEPT !.kind = k] : k \in {"my_info", "other", "none"}}

\* What one successful poll of the broker session yields.
BrokerEvents ==
    {[DefaultEvent EXCEPT !.kind = "publish", !.topic = t, !.decodes = TRUE,
                          !.has_packet = TRUE, !.packet = p] :
        t \in {Topic}, p \in RxPackets}
    \cup {[DefaultEvent EXCEPT !.kind = "publish", !.topic = t, !.decodes = d,
                               !.has_packet = FALSE] :
            t \in {Topic}, d \in BOOLEAN}
    \cup {[DefaultEvent EXCEPT !.kind = "publish",
                               !.topic = "meshtastic/2/e/LongFast/!a",
                               !.decodes = TRUE, !.has_packet = TRUE,
                               !.packet = p] :
            p \in CorePackets}
    \cup {[DefaultEvent EXCEPT !.kind = "publish", !.topic = Topic,
                               !.decodes = TRUE, !.has_packet = TRUE,
                               !.packet = NodeInfoRx(<<0, 43981>>, c)] :
            c \in Channels}
    \cup {[DefaultEvent EXCEPT !.kind = k] :
            k \in {"connack", "suback", "disconnect", "other"}}

\* The mesh events of the runs that exercise the whole relay.
CoreRadioEvents ==
    {e \in RadioEvents : \/ e.kind = "packet" /\ e.packet \in CorePackets
                         \/ e.kind = "other"}

CoreBrokerEvents ==
    {e \in BrokerEvents : \/ /\ e.kind = "publish"
                             /\ e.topic = Topic
                             /\ e.has_packet
                             /\ e.packet \in CorePackets
                          \/ e.kind = "other"}

\* What the chat session's stream yields: Message { prefix, command }.
ChatEvents ==
    {[cmd |-> "PRIVMSG", target |-> t, has_nick |-> TRUE, nick |-> k,
      content |-> "x"] :
        t \in {IrcChannel, "#other", CurrentNickname},
        k \in {"a", "b", CurrentNickname}}
    \cup {[cmd |-> "PRIVMSG", target |-> IrcChannel, has_nick |-> FALSE,
           nick |-> "", content |-> "x"]}
    \cup {[cmd |-> c, target |-> IrcChannel, has_nick |-> TRUE, nick |-> k,
           content |-> "x"] :
            c \in {"PING", "JOIN", "NOTICE", "ENDOFMOTD", "OTHER"},
            k \in {"a"}}

(***************************************************************************)
(* State.                                                                  *)
(***************************************************************************)
VARIABLES
    mqtt,          \* config.meshtastic.mqtt.is_some(): the broker transport runs
    channel,       \* config.meshtastic.channel
    serial_port,   \* config.meshtastic.serial_port: a path, or NoPort for None
    mainPc,        \* main: "start", "detect", "aborted" (main returned Err),
                   \* "bridge" (Bridge::run was called)
    ports,         \* detect_meshtastic_port: what available_ports() listed
    meshtastic_ports, \* the likely candidates still to be checked
    possible_ports,   \* the possible candidates still to be checked
    probed,        \* history: the paths verify_meshtastic_port was called on
    lastProbe,     \* history: the last probe, what it met and what it returned
    detectResult,  \* what detect_meshtastic_port returned
    irc_to_mesh,   \* the chat-to-mesh queue (irc_to_mesh_tx / irc_to_mesh_rx)
    mesh_to_irc,   \* the mesh-to-chat queue (mesh_to_irc_tx / mesh_to_irc_rx)
    ircPc,         \* the chat task: "init", "loop", "send_wait", "ended"
    ircHeld,       \* the IrcMessage held in to_meshtastic.send(..).await
    ircExit,       \* how the chat task ended: "-", "new failed", "run returned Ok"
    meshPc,        \* the mesh task: "init", "subscribe", "loop", "send_wait",
                   \* "sleep", "ended"
    meshHeld,      \* what process_mesh_packet holds in to_irc.send(..).await
    meshExit,      \* how the mesh task ended: "-", "new failed", "run returned Err"
    started,       \* history: the transports whose handler the mesh task built
    pollHistory,   \* history: "none"; "failed" once eventloop.poll() has returned
                   \* Err; "polled" once an event was handled after that
    node_names,    \* the transport's node directory
    radioOpen,     \* the serial decoded-envelope stream has not ended
    pubPc,         \* the broker's handle_irc_messages task: "none", "loop", "ended"
    bridgePc,      \* Bridge::run: "waiting", "returned"
    bridgeResult,  \* what Bridge::run returned
    chatBudget,    \* chat events the environment may still deliver
    meshBudget,    \* mesh events the environment may still deliver
    chatSeq,       \* history: how many chat messages the relay accepted
    meshSeq,       \* history: how many mesh texts the transport accepted
    meshTaken,     \* history: rank of the last chat message taken for the mesh
    ircTaken,      \* history: rank of the last mesh text taken for the chat
    ircPut,        \* history: how the chat task's last queue send ended
    meshPut,       \* history: how the mesh task's last queue send ended
    lastRx,        \* history: the last mesh event the transport handled
    lastAck,       \* history: the acknowledgement written while handling lastRx
    lastTx,        \* history: the last text packet handed to the radio or broker
    topics,        \* history: the topic the broker client subscribed to, and
                   \* the topic of its last publish call
    lastChat       \* history: the last text handed to the chat channel

vars ==
    <<mqtt, channel, serial_port, mainPc, ports, meshtastic_ports,
      possible_ports, probed, lastProbe, detectResult, started, pollHistory, irc_to_mesh, mesh_to_irc, ircPc, ircHeld, ircExit, meshPc,
      meshHeld, meshExit, node_names, radioOpen, pubPc, bridgePc, bridgeResult, chatBudget,
      meshBudget, chatSeq, meshSeq, meshTaken, ircTaken, ircPut, meshPut,
      lastRx, lastAck, lastTx, topics, lastChat>>

\* What startup left behind: nothing of it changes once Bridge::run runs.
startVars ==
    <<mainPc, ports, meshtastic_ports, possible_ports, probed, lastProbe,
      detectResult>>

configVars == <<mqtt, channel, serial_port, startVars>>

ircVars ==
    <<ircPc, ircHeld, ircExit, ircPut, chatSeq, chatBudget, ircTaken, lastChat>>

meshVars ==
    <<meshPc, meshHeld, meshExit, started, pollHistory, meshPut, meshSeq, meshBudget, node_names, radioOpen,
      lastRx, lastAck>>

pubVars == <<pubPc, meshTaken, lastTx, topics>>

bridgeVars == <<bridgePc, bridgeResult>>

(***************************************************************************)
(* The relay queues: tokio::sync::mpsc::channel(100).                       *)
(***************************************************************************)
\* The chat task owns mesh_to_irc_rx and irc_to_mesh_tx from its spawn until
\* it ends (bridge.rs:31-45).
IrcAlive == ircPc # "ended"

\* mesh_to_irc_tx lives in the mesh task.
MeshTxAlive == meshPc # "ended"

\* irc_to_mesh_rx lives in the mesh task; the broker transport moves it into
\* its handle_irc_messages task (mqtt_handler.rs:64-66).
MeshRxAlive == IF pubPc = "none" THEN meshPc # "ended" ELSE pubPc # "ended"

\* Sender::try_send in place of send: a full queue is an error too, and the
\* item is dropped.
TrySendOutcome(queue, rxAlive) ==
    IF ~rxAlive THEN "closed"
    ELSE IF Len(queue) < QueueCapacity THEN "queued"
    ELSE "closed"

\* Sender::send(item).await: an error once the receiver is gone, the item
\* queued when there is room, the sender suspended otherwise.
SendOutcome(queue, rxAlive) ==
    IF ~rxAlive THEN "closed"
    ELSE IF Len(queue) < QueueCapacity THEN "queued"
    ELSE "waiting"

\* A queue that hands out the newest item first.
EnqueueFront(queue, item) == <<item>> \o queue

\* The queue after a send that found room.
Enqueue(queue, item) == Append(queue, item)

\* Receiver::recv() yields the oldest item.
RecvItem(queue) == Head(queue)

\* The queue after recv().
RecvRest(queue) == Tail(queue)

(***************************************************************************)
(* The packet translator.                                                  *)
(***************************************************************************)
\* self.node_names.get(&packet.from).cloned()
\*     .unwrap_or_else(|| format!("{:08x}", packet.from))
SenderName(names, from) ==
    IF from \in DOMAIN names THEN names[from] ELSE Hex08(from)

\* An insert that keeps the entry a node already has.
InsertIfAbsent(names, node_id, short_name) ==
    [k \in DOMAIN names \cup {node_id} |->
        IF k \in DOMAIN names THEN names[k] ELSE short_name]

\* self.node_names.insert(node_id, short_name)
Insert(names, node_id, short_name) ==
    [k \in DOMAIN names \cup {node_id} |->
        IF k = node_id THEN short_name ELSE names[k]]

\* MeshtasticHandler::process_mesh_packet up to `to_irc.send(message)`.
ProcessMeshPacket(packet, names) ==
    IF /\ packet.variant = "decoded"
       /\ packet.portnum = TextMessageApp
       /\ Len(packet.payload) > 0
       /\ Utf8Valid(packet.payload)
    THEN [forward |-> TRUE,
          message |-> FormatMesh(SenderName(names, packet.from),
                                 Utf8Text(packet.payload)),
          n |-> 0,
          wants_ack |-> packet.want_ack,
          packet_id |-> packet.id,
          from_node |-> packet.from]
    ELSE NoForward

\* if wants_ack, without the test of the id.
AckDueIgnoringId(held) == held.wants_ack

\* if wants_ack && packet_id != 0
AckDue(held) == held.wants_ack /\ held.packet_id # 0

\* A handler that records the short name of every NodeInfo with a user, the
\* empty name too.
HandleMeshtasticPacketAnyName(ev, chan, names) ==
    CASE ev.kind = "packet" ->
            [fwd |-> IF ev.packet.channel = chan
                     THEN ProcessMeshPacket(ev.packet, names)
                     ELSE NoForward,
             names |-> names]
      [] ev.kind = "node_info" ->
            [fwd |-> NoForward,
             names |-> IF ev.has_user
                       THEN Insert(names, ev.num, ev.short_name)
                       ELSE names]
      [] OTHER -> [fwd |-> NoForward, names |-> names]

\* MeshtasticHandler::handle_meshtastic_packet: what to forward, and the
\* node directory afterwards.
HandleMeshtasticPacket(ev, chan, names) ==
    CASE ev.kind = "packet" ->
            [fwd |-> IF ev.packet.channel = chan
                     THEN ProcessMeshPacket(ev.packet, names)
                     ELSE NoForward,
             names |-> names]
      [] ev.kind = "node_info" ->
            [fwd |-> NoForward,
             names |-> IF ev.has_user /\ ev.short_name # ""
                       THEN Insert(names, ev.num, ev.short_name)
                       ELSE names]
      [] OTHER -> [fwd |-> NoForward, names |-> names]

\* A broker receive path without the "[IRC-" test: every non-empty UTF-8 text
\* is forwarded.
MqttProcessMeshPacketNoFilter(packet, names) ==
    IF /\ packet.variant = "decoded"
       /\ packet.portnum = TextMessageApp
       /\ Len(packet.payload) > 0
       /\ Utf8Valid(packet.payload)
    THEN [forward |-> TRUE,
          message |-> FormatMesh(SenderName(names, packet.from),
                                 Utf8Text(packet.payload)),
          n |-> 0,
          wants_ack |-> FALSE,
          packet_id |-> 0,
          from_node |-> ZeroNode]
    ELSE NoForward

\* MqttHandler::process_mesh_packet up to `to_irc.send(message)`.
MqttProcessMeshPacket(packet, names) ==
    IF /\ packet.variant = "decoded"
       /\ packet.portnum = TextMessageApp
       /\ Len(packet.payload) > 0
       /\ Utf8Valid(packet.payload)
       /\ ~StartsWith(Utf8Text(packet.payload), "[IRC-")
    THEN [forward |-> TRUE,
          message |-> FormatMesh(SenderName(names, packet.from),
                                 Utf8Text(packet.payload)),
          n |-> 0,
          wants_ack |-> FALSE,
          packet_id |-> 0,
          from_node |-> ZeroNode]
    ELSE NoForward

\* A handler that reads the configured topic as a subscription filter: a
\* trailing "#" matches every topic that starts with what precedes it.
HandleMqttEventWildcard(ev, topic, names) ==
    IF /\ ev.kind = "publish"
       /\ \/ ev.topic = topic
          \/ /\ Len(topic) > 0
             /\ SubSeq(topic, Len(topic), Len(topic)) = "#"
             /\ StartsWith(ev.topic, SubSeq(topic, 1, Len(topic) - 1))
       /\ ev.decodes
       /\ ev.has_packet
    THEN MqttProcessMeshPacket(ev.packet, names)
    ELSE NoForward

\* MqttHandler::handle_mqtt_event: what to forward.
HandleMqttEvent(ev, topic, names) ==
    IF /\ ev.kind = "publish"
       /\ ev.topic = topic
       /\ ev.decodes
       /\ ev.has_packet
    THEN MqttProcessMeshPacket(ev.packet, names)
    ELSE NoForward

\* A text packet left on the default channel 0 and asking to be acknowledged.
TextPacketDefaultChannel(message, chan) ==
    [DefaultPacket EXCEPT
        !.to = BroadcastAddr,
        !.from = ZeroNode,
        !.channel = 0,
        !.id = 0,
        !.want_ack = TRUE,
        !.variant = "decoded",
        !.portnum = TextMessageApp,
        !.payload = AsBytes(FormatIrc(message.sender, message.content))]

\* The MeshPacket send_to_meshtastic and send_to_mqtt build.
TextPacket(message, chan) ==
    [DefaultPacket EXCEPT
        !.to = BroadcastAddr,
        !.from = ZeroNode,
        !.channel = chan,
        !.id = 0,
        !.variant = "decoded",
        !.portnum = TextMessageApp,
        !.payload = AsBytes(FormatIrc(message.sender, message.content))]

\* An acknowledgement that is broadcast on the packet's own terms: to every
\* node, asking to be acknowledged itself.
AckPacketBroadcast(packet_id, to_node) ==
    [DefaultPacket EXCEPT
        !.to = BroadcastAddr,
        !.from = ZeroNode,
        !.channel = 0,
        !.id = 0,
        !.variant = "decoded",
        !.portnum = RoutingApp,
        !.payload = <<>>,
        !.request_id = packet_id,
        !.want_ack = TRUE]

\* The MeshPacket send_ack builds.
AckPacket(packet_id, to_node) ==
    [DefaultPacket EXCEPT
        !.to = to_node,
        !.from = ZeroNode,
        !.channel = 0,
        !.id = 0,
        !.variant = "decoded",
        !.portnum = RoutingApp,
        !.payload = <<>>,
        !.request_id = packet_id,
        !.want_ack = FALSE]

\* A filter that tests the target only, not the sender.
AcceptsOwnMessages(ev, chan, nickname) ==
    /\ ev.cmd = "PRIVMSG"
    /\ ev.target = chan
    /\ ev.has_nick

\* IrcHandler::handle_irc_message: whether the event is forwarded to the mesh.
Accepts(ev, chan, nickname) ==
    /\ ev.cmd = "PRIVMSG"
    /\ ev.target = chan
    /\ ev.has_nick
    /\ ev.nick # nickname

(***************************************************************************)
(* Bridge::run has created the queues and spawned both tasks.              *)
(***************************************************************************)
\* The queues are empty, nothing has been relayed, the tasks have not run.
RelayIdle(chatEvents, meshEvents) ==
    /\ started = {}
    /\ pollHistory = "none"
    /\ irc_to_mesh = <<>>
    /\ mesh_to_irc = <<>>
    /\ ircHeld = NoIrcMessage
    /\ ircExit = "-"
    /\ meshHeld = NoForward
    /\ meshExit = "-"
    /\ node_names = [k \in {} |-> ""]
    /\ radioOpen = TRUE
    /\ pubPc = "none"
    /\ bridgePc = "waiting"
    /\ bridgeResult = "none"
    /\ chatBudget = chatEvents
    /\ meshBudget = meshEvents
    /\ chatSeq = 0
    /\ meshSeq = 0
    /\ meshTaken = 0
    /\ ircTaken = 0
    /\ ircPut = "none"
    /\ meshPut = "none"
    /\ lastRx = NoEvent
    /\ lastAck = NoTx
    /\ lastTx = NoTx
    /\ topics = NoTopics
    /\ lastChat = [text |-> "", ok |-> FALSE]

InitWith(chatEvents, meshEvents, bothTransports) ==
    /\ mqtt \in BOOLEAN
    /\ channel \in Channels
    /\ serial_port \in IF ~mqtt THEN {ConfiguredPort}
                      ELSE IF bothTransports THEN {NoPort, ConfiguredPort}
                      ELSE {NoPort}
    /\ mainPc = "bridge"
    /\ ports = <<>>
    /\ meshtastic_ports = <<>>
    /\ possible_ports = <<>>
    /\ probed = <<>>
    /\ lastProbe = NoProbe
    /\ detectResult = NoResult
    /\ ircPc = "init"
    /\ meshPc = "init"
    /\ RelayIdle(chatEvents, meshEvents)

Init == InitWith(MaxChatEvents, MaxMeshEvents, FALSE)

(***************************************************************************)
(* The chat relay: the task of bridge.rs:31-45 running IrcHandler.         *)
(***************************************************************************)
\* IrcHandler::new, then run up to its loop; a failure ends the task, which
\* drops mesh_to_irc_rx (and what the queue holds) and irc_to_mesh_tx.
IrcNew(ok) ==
    /\ ircPc = "init"
    /\ IF ok
       THEN ircPc' = "loop" /\ UNCHANGED <<mesh_to_irc, ircExit>>
       ELSE /\ ircPc' = "ended"
            /\ ircExit' = "new failed"
            /\ mesh_to_irc' = <<>>
    /\ UNCHANGED <<ircHeld, ircPut, chatSeq, chatBudget, ircTaken, lastChat>>
    /\ UNCHANGED <<configVars, irc_to_mesh, meshVars, pubVars, bridgeVars>>

\* stream.next() yields None: "IRC stream ended", break, run returns Ok(()).
IrcStreamEnd ==
    /\ ircPc = "loop"
    /\ ircPc' = "ended"
    /\ ircExit' = "run returned Ok"
    /\ mesh_to_irc' = <<>>
    /\ UNCHANGED <<ircHeld, ircPut, chatSeq, chatBudget, ircTaken, lastChat>>
    /\ UNCHANGED <<configVars, irc_to_mesh, meshVars, pubVars, bridgeVars>>

\* stream.next() yields Some(Err(_)): neither arm of the if takes it.
IrcStreamError ==
    /\ ircPc = "loop"
    /\ chatBudget > 0
    /\ chatBudget' = chatBudget - 1
    /\ UNCHANGED <<ircPc, ircHeld, ircPut, chatSeq, ircTaken, lastChat>>
    /\ UNCHANGED <<configVars, irc_to_mesh, mesh_to_irc, meshVars, pubVars,
                   bridgeVars>>
    /\ UNCHANGED ircExit

\* to_meshtastic.send(irc_msg).await and the match on its result.
ToMeshtasticSend(msg) ==
    LET outcome == SendOutcome(irc_to_mesh, MeshRxAlive) IN
    /\ ircPut' = outcome
    /\ CASE outcome = "queued" ->
                /\ irc_to_mesh' = Enqueue(irc_to_mesh, msg)
                /\ ircHeld' = NoIrcMessage
                /\ ircPc' = "loop"
         [] outcome = "waiting" ->
                /\ ircHeld' = msg
                /\ ircPc' = "send_wait"
                /\ UNCHANGED irc_to_mesh
         [] outcome = "closed" ->
                /\ ircHeld' = NoIrcMessage
                /\ ircPc' = "loop"
                /\ UNCHANGED irc_to_mesh

\* stream.next() yields Some(Ok(message)): handle_irc_message.
IrcStreamMessage(ev) ==
    /\ ircPc = "loop"
    /\ chatBudget > 0
    /\ chatBudget' = chatBudget - 1
    /\ IF Accepts(ev, IrcChannel, CurrentNickname)
       THEN /\ chatSeq' = chatSeq + 1
            /\ ToMeshtasticSend([sender |-> ev.nick, content |-> ev.content,
                                 n |-> chatSeq + 1])
       ELSE UNCHANGED <<chatSeq, ircPut, irc_to_mesh, ircHeld, ircPc>>
    /\ UNCHANGED <<ircTaken, lastChat>>
    /\ UNCHANGED <<configVars, mesh_to_irc, meshVars, pubVars, bridgeVars>>
    /\ UNCHANGED ircExit

\* The suspended to_meshtastic.send completes: room was made, or the
\* receiver was dropped.
IrcSendResume ==
    /\ ircPc = "send_wait"
    /\ SendOutcome(irc_to_mesh, MeshRxAlive) # "waiting"
    /\ ToMeshtasticSend(ircHeld)
    /\ UNCHANGED <<chatSeq, chatBudget, ircTaken, lastChat>>
    /\ UNCHANGED <<configVars, mesh_to_irc, meshVars, pubVars, bridgeVars>>
    /\ UNCHANGED ircExit

\* A relay loop that leaves run by `?` when send_to_irc fails: the task ends
\* and drops its queue ends.
IrcRecvFromMeshFatal(ok) ==
    /\ ircPc = "loop"
    /\ mesh_to_irc # <<>>
    /\ mesh_to_irc' = IF ok THEN RecvRest(mesh_to_irc) ELSE <<>>
    /\ ircTaken' = RecvItem(mesh_to_irc).n
    /\ lastChat' = [text |-> RecvItem(mesh_to_irc).text, ok |-> ok]
    /\ ircPc' = IF ok THEN ircPc ELSE "ended"
    /\ ircExit' = IF ok THEN ircExit ELSE "run returned Err"
    /\ UNCHANGED <<ircHeld, ircPut, chatSeq, chatBudget>>
    /\ UNCHANGED <<configVars, irc_to_mesh, meshVars, pubVars, bridgeVars>>

\* from_meshtastic.recv() yields Some(message): send_to_irc, whose error is
\* logged.
IrcRecvFromMesh(ok) ==
    /\ ircPc = "loop"
    /\ mesh_to_irc # <<>>
    /\ mesh_to_irc' = RecvRest(mesh_to_irc)
    /\ ircTaken' = RecvItem(mesh_to_irc).n
    /\ lastChat' = [text |-> RecvItem(mesh_to_irc).text, ok |-> ok]
    /\ UNCHANGED <<ircPc, ircHeld, ircPut, chatSeq, chatBudget>>
    /\ UNCHANGED <<configVars, irc_to_mesh, meshVars, pubVars, bridgeVars>>
    /\ UNCHANGED ircExit

(***************************************************************************)
(* Both mesh transports: `to_irc.send(message).await?` and what follows.   *)
(***************************************************************************)
\* A send that acknowledges before the text is on the queue: the
\* acknowledgement goes out whatever becomes of the send.
ToIrcSendAckFirst(held, ok) ==
    LET outcome == SendOutcome(mesh_to_irc, IrcAlive) IN
    /\ meshPut' = outcome
    /\ lastAck' =
           IF AckDue(held)
           THEN [kind |-> "ack",
                 packet |-> AckPacket(held.packet_id, held.from_node),
                 text |-> "", ok |-> ok]
           ELSE NoTx
    /\ CASE outcome = "queued" ->
                /\ mesh_to_irc' =
                       Enqueue(mesh_to_irc, [text |-> held.message, n |-> held.n])
                /\ meshHeld' = NoForward
                /\ meshPc' = "loop"
         [] outcome = "waiting" ->
                /\ meshHeld' = held
                /\ meshPc' = "send_wait"
                /\ UNCHANGED mesh_to_irc
         [] outcome = "closed" ->
                /\ meshHeld' = NoForward
                /\ meshPc' = "loop"
                /\ UNCHANGED mesh_to_irc

\* The send queues the text, suspends the task, or fails (the error leaves
\* process_mesh_packet by `?` and is logged in run).  After a send that
\* succeeded the serial transport acknowledges; ok is how send_ack's write to
\* the radio ends.
ToIrcSend(held, ok) ==
    LET outcome == SendOutcome(mesh_to_irc, IrcAlive) IN
    /\ meshPut' = outcome
    /\ CASE outcome = "queued" ->
                /\ mesh_to_irc' =
                       Enqueue(mesh_to_irc, [text |-> held.message, n |-> held.n])
                /\ meshHeld' = NoForward
                /\ meshPc' = "loop"
                /\ lastAck' =
                       IF AckDue(held)
                       THEN [kind |-> "ack",
                             packet |-> AckPacket(held.packet_id, held.from_node),
                             text |-> "", ok |-> ok]
                       ELSE NoTx
         [] outcome = "waiting" ->
                /\ meshHeld' = held
                /\ meshPc' = "send_wait"
                /\ lastAck' = NoTx
                /\ UNCHANGED mesh_to_irc
         [] outcome = "closed" ->
                /\ meshHeld' = NoForward
                /\ meshPc' = "loop"
                /\ lastAck' = NoTx
                /\ UNCHANGED mesh_to_irc

\* What a handled mesh event does once the handler has decided what to forward.
Forward(fwd, ok) ==
    IF fwd.forward
    THEN /\ meshSeq' = meshSeq + 1
         /\ ToIrcSend([fwd EXCEPT !.n = meshSeq + 1], ok)
    ELSE /\ meshPut' = "none"
         /\ lastAck' = NoTx
         /\ UNCHANGED <<meshSeq, mesh_to_irc, meshHeld, meshPc>>

(***************************************************************************)
(* The serial transport: the task of bridge.rs:67-81 running               *)
(* MeshtasticHandler.                                                      *)
(***************************************************************************)
\* A selection that prefers the serial path when one is configured.
SerialFirst(hasMqtt, hasSerial) == IF hasSerial THEN "serial" ELSE "broker"

\* Bridge::run: `if let Some(mqtt_config) = &meshtastic_config.mqtt` spawns
\* the broker transport, else the serial transport.
MeshTransport(hasMqtt, hasSerial) == IF hasMqtt THEN "broker" ELSE "serial"

\* MeshtasticHandler::new (without a serial path: "Serial port not
\* specified"); a failure ends the task, which drops
\* irc_to_mesh_rx (and what the queue holds) and mesh_to_irc_tx.
SerialNew(ok) ==
    /\ MeshTransport(mqtt, serial_port # NoPort) = "serial"
    /\ meshPc = "init"
    /\ ok => serial_port # NoPort
    /\ started' = started \cup {"serial"}
    /\ UNCHANGED pollHistory
    /\ IF ok
       THEN meshPc' = "loop" /\ UNCHANGED <<irc_to_mesh, meshExit>>
       ELSE /\ meshPc' = "ended"
            /\ meshExit' = "new failed"
            /\ irc_to_mesh' = <<>>
    /\ UNCHANGED <<meshHeld, meshPut, meshSeq, meshBudget, node_names,
                   radioOpen, lastRx, lastAck>>
    /\ UNCHANGED <<configVars, mesh_to_irc, ircVars, pubVars, bridgeVars>>

\* The device goes away: decoded_listener.recv() yields None from now on.
RadioStreamEnd ==
    /\ ~mqtt
    /\ meshPc \in {"loop", "send_wait"}
    /\ radioOpen
    /\ radioOpen' = FALSE
    /\ UNCHANGED <<meshPc, meshHeld, meshPut, meshSeq, meshBudget, node_names,
                   lastRx, lastAck>>
    /\ UNCHANGED <<configVars, irc_to_mesh, mesh_to_irc, ircVars, pubVars,
                   bridgeVars>>
    /\ UNCHANGED <<meshExit, started, pollHistory>>

\* run's first select arm: decoded_listener.recv() yields Some(from_radio),
\* handle_meshtastic_packet handles it, its error is logged.
SerialRecvRadio(ev, ok) ==
    /\ ~mqtt
    /\ meshPc = "loop"
    /\ radioOpen
    /\ meshBudget > 0
    /\ meshBudget' = meshBudget - 1
    /\ lastRx' = ev
    /\ LET r == HandleMeshtasticPacket(ev, channel, node_names) IN
        /\ node_names' = r.names
        /\ Forward(r.fwd, ok)
    /\ UNCHANGED radioOpen
    /\ UNCHANGED <<configVars, irc_to_mesh, ircVars, pubVars, bridgeVars>>
    /\ UNCHANGED <<meshExit, started, pollHistory>>

\* The suspended to_irc.send of process_mesh_packet completes.
SerialSendResume(ok) ==
    /\ ~mqtt
    /\ meshPc = "send_wait"
    /\ SendOutcome(mesh_to_irc, IrcAlive) # "waiting"
    /\ ToIrcSend(meshHeld, ok)
    /\ UNCHANGED <<meshSeq, meshBudget, node_names, radioOpen, lastRx>>
    /\ UNCHANGED <<configVars, irc_to_mesh, ircVars, pubVars, bridgeVars>>
    /\ UNCHANGED <<meshExit, started, pollHistory>>

\* run's second select arm: from_irc.recv() yields Some(message),
\* send_to_meshtastic writes it to the radio, its error is logged.
SerialRecvFromIrc(ok) ==
    /\ ~mqtt
    /\ meshPc = "loop"
    /\ irc_to_mesh # <<>>
    /\ irc_to_mesh' = RecvRest(irc_to_mesh)
    /\ meshTaken' = RecvItem(irc_to_mesh).n
    /\ lastTx' =
           [kind |-> "text",
            packet |-> TextPacket(RecvItem(irc_to_mesh), channel),
            text |-> FormatIrc(RecvItem(irc_to_mesh).sender,
                               RecvItem(irc_to_mesh).content),
            ok |-> ok]
    /\ UNCHANGED <<pubPc, topics>>
    /\ UNCHANGED <<configVars, mesh_to_irc, ircVars, meshVars, bridgeVars>>

\* run's else arm: both recv() yield None (the stream has ended, the chat
\* task has dropped its sender and the queue is empty): sleep 100 ms.
SerialIdleSleep ==
    /\ ~mqtt
    /\ meshPc = "loop"
    /\ ~radioOpen
    /\ irc_to_mesh = <<>>
    /\ ~IrcAlive
    /\ meshPc' = "sleep"
    /\ UNCHANGED <<meshHeld, meshPut, meshSeq, meshBudget, node_names,
                   radioOpen, lastRx, lastAck>>
    /\ UNCHANGED <<configVars, irc_to_mesh, mesh_to_irc, ircVars, pubVars,
                   bridgeVars>>
    /\ UNCHANGED <<meshExit, started, pollHistory>>

\* The sleep is over: the loop goes round.
SerialIdleWake ==
    /\ ~mqtt
    /\ meshPc = "sleep"
    /\ meshPc' = "loop"
    /\ UNCHANGED <<meshHeld, meshPut, meshSeq, meshBudget, node_names,
                   radioOpen, lastRx, lastAck>>
    /\ UNCHANGED <<configVars, irc_to_mesh, mesh_to_irc, ircVars, pubVars,
                   bridgeVars>>
    /\ UNCHANGED <<meshExit, started, pollHistory>>

(***************************************************************************)
(* The broker transport: the task of bridge.rs:51-65 running MqttHandler,  *)
(* and the handle_irc_messages task it spawns.                             *)
(***************************************************************************)
\* MqttHandler::new builds the client and returns Ok.
MqttNew ==
    /\ MeshTransport(mqtt, serial_port # NoPort) = "broker"
    /\ meshPc = "init"
    /\ meshPc' = "subscribe"
    /\ started' = started \cup {"broker"}
    /\ UNCHANGED pollHistory
    /\ UNCHANGED <<meshHeld, meshPut, meshSeq, meshBudget, node_names,
                   radioOpen, lastRx, lastAck>>
    /\ UNCHANGED <<configVars, irc_to_mesh, mesh_to_irc, ircVars, pubVars,
                   bridgeVars>>
    /\ UNCHANGED meshExit

\* run: client.subscribe(..).await?, then the spawn of handle_irc_messages.
\* A failure returns from run: the task ends and drops irc_to_mesh_rx.
MqttSubscribe(ok) ==
    /\ mqtt
    /\ meshPc = "subscribe"
    /\ IF ok
       THEN /\ meshPc' = "loop"
            /\ pubPc' = "loop"
            /\ topics' = [topics EXCEPT !.subscribed = Topic]
            /\ UNCHANGED <<irc_to_mesh, meshExit>>
       ELSE /\ meshPc' = "ended"
            /\ meshExit' = "run returned Err"
            /\ irc_to_mesh' = <<>>
            /\ UNCHANGED <<pubPc, topics>>
    /\ UNCHANGED <<meshHeld, meshPut, meshSeq, meshBudget, node_names,
                   radioOpen, lastRx, lastAck>>
    /\ UNCHANGED <<meshTaken, lastTx>>
    /\ UNCHANGED <<configVars, mesh_to_irc, ircVars, bridgeVars>>
    /\ UNCHANGED <<started, pollHistory>>

\* A main loop that keeps a directory: a publish that carries a peer's
\* announcement enters the peer under its short name.
MqttPollLearnsNames(ev) ==
    /\ mqtt
    /\ meshPc = "loop"
    /\ meshBudget > 0
    /\ meshBudget' = meshBudget - 1
    /\ lastRx' = ev
    /\ Forward(HandleMqttEvent(ev, Topic, node_names), FALSE)
    /\ node_names' =
           IF ev.kind = "publish" /\ ev.has_packet /\ ev.packet.portnum = 4
           THEN Insert(node_names, ev.packet.from, "N1")
           ELSE node_names
    /\ UNCHANGED radioOpen
    /\ UNCHANGED <<configVars, irc_to_mesh, ircVars, pubVars, bridgeVars>>
    /\ pollHistory' = IF pollHistory = "none" THEN "none" ELSE "polled"
    /\ UNCHANGED <<meshExit, started>>

\* The main loop: eventloop.poll() yields Ok(event), handle_mqtt_event
\* handles it, its error is logged.
MqttPoll(ev) ==
    /\ mqtt
    /\ meshPc = "loop"
    /\ meshBudget > 0
    /\ meshBudget' = meshBudget - 1
    /\ lastRx' = ev
    /\ Forward(HandleMqttEvent(ev, Topic, node_names), FALSE)
    /\ UNCHANGED <<node_names, radioOpen>>
    /\ UNCHANGED <<configVars, irc_to_mesh, ircVars, pubVars, bridgeVars>>
    /\ pollHistory' = IF pollHistory = "none" THEN "none" ELSE "polled"
    /\ UNCHANGED <<meshExit, started>>

\* The ServiceEnvelope send_to_mqtt published last, as the broker hands it to
\* a subscriber of its topic: the packet as it was encoded, on the topic it
\* was published to.
EchoEvent ==
    [DefaultEvent EXCEPT !.kind = "publish", !.topic = topics.published,
                         !.decodes = TRUE, !.has_packet = TRUE,
                         !.packet = lastTx.packet]

\* The main loop polls the session's own last publication: the client is
\* subscribed to the topic it publishes to, and the broker delivers a
\* publication to every subscriber of its topic.
MqttPollEcho ==
    /\ lastTx.kind = "text"
    /\ lastTx.ok
    /\ topics.published = topics.subscribed
    /\ MqttPoll(EchoEvent)

\* A poll error that leaves run by `?`: the task ends and drops its queue
\* ends.
MqttPollErrorReturns ==
    /\ mqtt
    /\ meshPc = "loop"
    /\ meshBudget > 0
    /\ meshBudget' = meshBudget - 1
    /\ meshPc' = "ended"
    /\ meshExit' = "run returned Err"
    /\ pollHistory' = "failed"
    /\ UNCHANGED <<meshHeld, meshPut, meshSeq, node_names, radioOpen, lastRx,
                   lastAck, started>>
    /\ UNCHANGED <<configVars, irc_to_mesh, mesh_to_irc, ircVars, pubVars,
                   bridgeVars>>

\* eventloop.poll() yields Err: logged, then sleep 5 s.
MqttPollError ==
    /\ mqtt
    /\ meshPc = "loop"
    /\ meshBudget > 0
    /\ meshBudget' = meshBudget - 1
    /\ meshPc' = "sleep"
    /\ pollHistory' = "failed"
    /\ UNCHANGED <<meshHeld, meshPut, meshSeq, node_names, radioOpen, lastRx,
                   lastAck>>
    /\ UNCHANGED <<configVars, irc_to_mesh, mesh_to_irc, ircVars, pubVars,
                   bridgeVars>>
    /\ UNCHANGED <<meshExit, started>>

\* The sleep is over: the loop polls again.
MqttBackoffDone ==
    /\ mqtt
    /\ meshPc = "sleep"
    /\ meshPc' = "loop"
    /\ UNCHANGED <<meshHeld, meshPut, meshSeq, meshBudget, node_names,
                   radioOpen, lastRx, lastAck>>
    /\ UNCHANGED <<configVars, irc_to_mesh, mesh_to_irc, ircVars, pubVars,
                   bridgeVars>>
    /\ UNCHANGED <<meshExit, started, pollHistory>>

\* The suspended to_irc.send of process_mesh_packet completes.
MqttSendResume ==
    /\ mqtt
    /\ meshPc = "send_wait"
    /\ SendOutcome(mesh_to_irc, IrcAlive) # "waiting"
    /\ ToIrcSend(meshHeld, FALSE)
    /\ UNCHANGED <<meshSeq, meshBudget, node_names, radioOpen, lastRx>>
    /\ UNCHANGED <<configVars, irc_to_mesh, ircVars, pubVars, bridgeVars>>
    /\ UNCHANGED <<meshExit, started, pollHistory>>

\* A publisher that retries: a message whose publish failed stays at the
\* front of the queue and is taken again.
MqttRecvFromIrcRetry(ok) ==
    /\ pubPc = "loop"
    /\ irc_to_mesh # <<>>
    /\ irc_to_mesh' = IF ok THEN RecvRest(irc_to_mesh) ELSE irc_to_mesh
    /\ meshTaken' = RecvItem(irc_to_mesh).n
    /\ lastTx' =
           [kind |-> "text",
            packet |-> TextPacket(RecvItem(irc_to_mesh), channel),
            text |-> FormatIrc(RecvItem(irc_to_mesh).sender,
                               RecvItem(irc_to_mesh).content),
            ok |-> ok]
    /\ topics' = [topics EXCEPT !.published = Topic]
    /\ UNCHANGED pubPc
    /\ UNCHANGED <<configVars, mesh_to_irc, ircVars, meshVars, bridgeVars>>

\* handle_irc_messages: from_irc.recv() yields Some(message), send_to_mqtt
\* publishes it, its error is logged.
MqttRecvFromIrc(ok) ==
    /\ pubPc = "loop"
    /\ irc_to_mesh # <<>>
    /\ irc_to_mesh' = RecvRest(irc_to_mesh)
    /\ meshTaken' = RecvItem(irc_to_mesh).n
    /\ lastTx' =
           [kind |-> "text",
            packet |-> TextPacket(RecvItem(irc_to_mesh), channel),
            text |-> FormatIrc(RecvItem(irc_to_mesh).sender,
                               RecvItem(irc_to_mesh).content),
            ok |-> ok]
    /\ topics' = [topics EXCEPT !.published = Topic]
    /\ UNCHANGED pubPc
    /\ UNCHANGED <<configVars, mesh_to_irc, ircVars, meshVars, bridgeVars>>

\* handle_irc_messages: from_irc.recv() yields None (the chat task has
\* dropped its sender and the queue is empty): the while loop and the task end.
MqttIrcMessagesEnd ==
    /\ pubPc = "loop"
    /\ irc_to_mesh = <<>>
    /\ ~IrcAlive
    /\ pubPc' = "ended"
    /\ UNCHANGED <<meshTaken, lastTx, topics>>
    /\ UNCHANGED <<configVars, irc_to_mesh, mesh_to_irc, ircVars, meshVars,
                   bridgeVars>>

(***************************************************************************)
(* The orchestrator.                                                       *)
(***************************************************************************)
\* A run that reports success when the chat task is the one that completed.
RunResultByArm(arm) ==
    IF arm = "irc" THEN "Ok(())" ELSE "Err(Bridge terminated unexpectedly)"

\* A join in place of the select: both handles have to complete.
HandleDoneBoth(arm) == ircPc = "ended" /\ meshPc = "ended"

\* What Bridge::run returns after its select; arm is the handle that
\* completed ("irc" or "mesh").
RunResult(arm) == "Err(Bridge terminated unexpectedly)"

\* Whether the select of Bridge::run can complete on the arm.
HandleDone(arm) ==
    \/ arm = "irc" /\ ircPc = "ended"
    \/ arm = "mesh" /\ meshPc = "ended"

\* tokio::select! over irc_handle and mesh_handle, then the return.
BridgeReturn(arm) ==
    /\ bridgePc = "waiting"
    /\ HandleDone(arm)
    /\ bridgePc' = "returned"
    /\ bridgeResult' = RunResult(arm)
    /\ UNCHANGED <<configVars, irc_to_mesh, mesh_to_irc, ircVars, meshVars,
                   pubVars>>

(***************************************************************************)
(* The specification.                                                      *)
(***************************************************************************)
Next ==
    \/ \E ok \in BOOLEAN : IrcNew(ok)
    \/ IrcStreamEnd
    \/ IrcStreamError
    \/ \E ev \in ChatEvents : IrcStreamMessage(ev)
    \/ IrcSendResume
    \/ \E ok \in BOOLEAN : IrcRecvFromMesh(ok)
    \/ \E ok \in BOOLEAN : SerialNew(ok)
    \/ RadioStreamEnd
    \/ \E ev \in CoreRadioEvents, ok \in BOOLEAN : SerialRecvRadio(ev, ok)
    \/ \E ok \in BOOLEAN : SerialSendResume(ok)
    \/ \E ok \in BOOLEAN : SerialRecvFromIrc(ok)
    \/ SerialIdleSleep
    \/ SerialIdleWake
    \/ MqttNew
    \/ \E ok \in BOOLEAN : MqttSubscribe(ok)
    \/ \E ev \in CoreBrokerEvents : MqttPoll(ev)
    \/ MqttPollEcho
    \/ MqttPollError
    \/ MqttBackoffDone
    \/ MqttSendResume
    \/ \E ok \in BOOLEAN : MqttRecvFromIrc(ok)
    \/ MqttIrcMessagesEnd
    \/ \E arm \in {"irc", "mesh"} : BridgeReturn(arm)

Spec == Init /\ [][Next]_vars

(***************************************************************************)
(* The receive path of the mesh transports under every mesh event, with a  *)
(* silent chat network: the chat task starts, takes texts off the          *)
(* mesh-to-chat queue and may end, but receives no chat event.             *)
(***************************************************************************)
RxInit == InitWith(0, MaxMeshEvents, TRUE)

RxNext ==
    \/ \E ok \in BOOLEAN : IrcNew(ok)
    \/ IrcStreamEnd
    \/ \E ok \in BOOLEAN : IrcRecvFromMesh(ok)
    \/ \E ok \in BOOLEAN : SerialNew(ok)
    \/ RadioStreamEnd
    \/ \E ev \in RadioEvents, ok \in BOOLEAN : SerialRecvRadio(ev, ok)
    \/ \E ok \in BOOLEAN : SerialSendResume(ok)
    \/ MqttNew
    \/ \E ok \in BOOLEAN : MqttSubscribe(ok)
    \/ \E ev \in BrokerEvents : MqttPoll(ev)
    \/ MqttPollError
    \/ MqttBackoffDone
    \/ MqttSendResume

RxSpec == RxInit /\ [][RxNext]_vars

(***************************************************************************)
(* The same system under the scheduling the runtime gives: a task that can *)
(* take a step of its own (complete a suspended send, take an item off its *)
(* queue, wake from a sleep, return from the select) eventually takes it.  *)
(* Nothing is assumed about the networks: events may stop arriving.        *)
(***************************************************************************)
Fairness ==
    /\ WF_vars(\E arm \in {"irc", "mesh"} : BridgeReturn(arm))
    /\ WF_vars(IrcSendResume)
    /\ WF_vars(\E ok \in BOOLEAN : IrcRecvFromMesh(ok))
    /\ WF_vars(\E ok \in BOOLEAN : SerialSendResume(ok))
    /\ WF_vars(\E ok \in BOOLEAN : SerialRecvFromIrc(ok))
    /\ WF_vars(SerialIdleSleep)
    /\ WF_vars(SerialIdleWake)
    /\ WF_vars(MqttBackoffDone)
    /\ WF_vars(MqttSendResume)
    /\ WF_vars(\E ok \in BOOLEAN : MqttRecvFromIrc(ok))
    /\ WF_vars(MqttIrcMessagesEnd)

FairSpec == Init /\ [][Next]_vars /\ Fairness

(***************************************************************************)
(* Startup: main resolves the configuration, discovering a serial device   *)
(* when none is configured (serial_detector.rs), and calls Bridge::run.    *)
(***************************************************************************)
\* MESHTASTIC_VENDOR_IDS: (vid, pid)
MESHTASTIC_VENDOR_IDS ==
    {<<9114, 16384>>,    \* (0x239a, 0x4000)
     <<9114, 32809>>,    \* (0x239a, 0x8029)
     <<12346, 4097>>,    \* (0x303a, 0x1001)
     <<4292, 60000>>,    \* (0x10c4, 0xea60)
     <<1027, 24577>>,    \* (0x0403, 0x6001)
     <<1027, 24597>>,    \* (0x0403, 0x6015)
     <<6790, 21972>>,    \* (0x1a86, 0x55d4)
     <<11914, 10>>}      \* (0x2e8a, 0x000a)

MESHTASTIC_DESCRIPTIONS ==
    {"RAK4631", "LILYGO", "T-Beam", "T-Echo", "Heltec", "Nano G1",
     "Station G1", "CP210", "CH910", "FT232", "Meshtastic", "WisBlock"}

\* is_possible_meshtastic: common_chips
CommonChips ==
    {<<4292, 60000>>,    \* (0x10c4, 0xea60)
     <<6790, 29987>>,    \* (0x1a86, 0x7523)
     <<6790, 21972>>,    \* (0x1a86, 0x55d4)
     <<1027, 24577>>,    \* (0x0403, 0x6001)
     <<1027, 24597>>}    \* (0x0403, 0x6015)

\* A SerialPortInfo: usb says port_type is UsbPort; an Option<String> is the
\* empty sequence for None and <<s>> for Some(s).
PortInfo(name, usb, vid, pid, manufacturer, product, serial_number) ==
    [port_name |-> name, usb |-> usb, vid |-> vid, pid |-> pid,
     manufacturer |-> manufacturer, product |-> product,
     serial_number |-> serial_number]

\* The ports a machine may have: a RAK4631 by its ids, a CP210x bridge (in
\* both id tables), a CH340 (in the common-chips table only), a board known
\* by its manufacturer only, an adapter known by its product text only, a
\* port whose name contains "Bluetooth" (with the ids of a RAK4631), an
\* on-board port that is not USB, and a USB device nothing is known of.
SerialPorts ==
    {PortInfo("/dev/ttyACM0", TRUE, 9114, 16384, <<>>, <<>>, <<>>),
     PortInfo("/dev/ttyUSB0", TRUE, 4292, 60000, <<"Silicon Labs">>,
              <<"CP2102 USB to UART Bridge Controller">>, <<>>),
     PortInfo("/dev/ttyUSB1", TRUE, 6790, 29987, <<>>, <<>>, <<>>),
     PortInfo("/dev/ttyACM1", TRUE, 1, 1, <<"Heltec">>, <<>>, <<>>),
     PortInfo("/dev/ttyUSB2", TRUE, 1, 2, <<>>, <<"USB Serial">>, <<>>),
     PortInfo("/dev/cu.Bluetooth-Incoming-Port", TRUE, 9114, 16384, <<>>,
              <<>>, <<>>),
     PortInfo("/dev/ttyS0", FALSE, 0, 0, <<>>, <<>>, <<>>),
     PortInfo("/dev/ttyACM2", TRUE, 1, 3, <<>>, <<>>, <<>>)}

\* What available_ports() may list: up to MaxPorts ports, each once.
PortLists ==
    UNION {{l \in [1..n -> SerialPorts] :
               \A i, j \in 1..n : i # j => l[i].port_name # l[j].port_name} :
           n \in 0..MaxPorts}

\* What a probe of a port meets: the open fails, connect does not complete
\* in 3 s, no envelope arrives in 2 s, recv() yields None, or the first
\* FromRadio carries the named payload variant ("no variant": None).
ProbeOutcomes ==
    {"open failed", "connect timeout", "recv timeout", "stream closed",
     "my_info", "node_info", "config", "packet", "log_record", "no variant"}

\* The elements of an Option.
Opt(o) == {o[i] : i \in 1..Len(o)}

\* is_likely_meshtastic
IsLikelyMeshtastic(info) ==
    /\ info.usb
    /\ \/ <<info.vid, info.pid>> \in MESHTASTIC_VENDOR_IDS
       \/ \E manufacturer \in Opt(info.manufacturer) :
              LET manufacturer_lower == ToLowercase(manufacturer) IN
              \/ Contains(manufacturer_lower, "meshtastic")
              \/ Contains(manufacturer_lower, "rak")
              \/ Contains(manufacturer_lower, "lilygo")
              \/ Contains(manufacturer_lower, "heltec")
       \/ \E product \in Opt(info.product) :
              \E keyword \in MESHTASTIC_DESCRIPTIONS : Contains(product, keyword)
       \/ \E serial \in Opt(info.serial_number) :
              StartsWith(serial, "M") \/ Contains(serial, "mesh")

\* is_possible_meshtastic
IsPossibleMeshtastic(info) ==
    /\ info.usb
    /\ \/ <<info.vid, info.pid>> \in CommonChips
       \/ \E product \in Opt(info.product) :
              LET product_lower == ToLowercase(product) IN
              \/ Contains(product_lower, "esp32")
              \/ Contains(product_lower, "usb")
              \/ Contains(product_lower, "uart")

\* The port names of a list of ports.
PortNames(list) == [i \in 1..Len(list) |-> list[i].port_name]

\* The first loop of detect_meshtastic_port: meshtastic_ports.
LikelyPorts(list) ==
    LET Likely(info) == /\ ~Contains(info.port_name, "Bluetooth")
                        /\ IsLikelyMeshtastic(info)
    IN PortNames(SelectSeq(list, Likely))

\* The first loop of detect_meshtastic_port: possible_ports.
PossiblePorts(list) ==
    LET Possible(info) == /\ ~Contains(info.port_name, "Bluetooth")
                          /\ ~IsLikelyMeshtastic(info)
                          /\ IsPossibleMeshtastic(info)
    IN PortNames(SelectSeq(list, Possible))

\* A probe order that starts with the possible candidates.
NextCandidatePossibleFirst(likely, possible) ==
    IF possible # <<>> THEN Head(possible) ELSE Head(likely)

\* The two probe loops: the likely ports in order, then the possible ones.
NextCandidate(likely, possible) ==
    IF likely # <<>> THEN Head(likely) ELSE Head(possible)

\* A probe that takes any first envelope for a Meshtastic device.
VerifyAnyEnvelope(outcome) ==
    outcome \notin {"open failed", "connect timeout", "recv timeout",
                    "stream closed"}

\* verify_meshtastic_port: the bool it returns (it never returns Err).
VerifyMeshtasticPort(outcome) ==
    CASE outcome = "open failed" -> FALSE
      [] outcome = "connect timeout" -> FALSE
      [] outcome \in {"recv timeout", "stream closed"} -> FALSE
      [] outcome \in {"my_info", "node_info", "config", "packet"} -> TRUE
      [] OTHER -> FALSE

\* A discovery that falls back to the first listed port when none verified.
ExhaustedFallback(list) == [kind |-> "Ok", path |-> list[1].port_name]

\* detect_meshtastic_port after both loops: Err("No Meshtastic devices
\* found ..."), having logged the ports of the list.
Exhausted(list) == [kind |-> "Err", path |-> NoPort]

\* A startup that looks for a device whenever no serial path is given.
NeedsDetectionNoSerial(path, hasMqtt) == path = NoPort

\* main: if config.meshtastic.serial_port.is_none()
\*          && config.meshtastic.mqtt.is_none()
NeedsDetection(path, hasMqtt) == path = NoPort /\ ~hasMqtt

\* main with a serial path or a broker configured: Bridge::new(config),
\* bridge.run(), which creates the queues and spawns both tasks.
MainConfigured ==
    /\ mainPc = "start"
    /\ ~NeedsDetection(serial_port, mqtt)
    /\ mainPc' = "bridge"
    /\ ircPc' = "init"
    /\ meshPc' = "init"
    /\ UNCHANGED <<mqtt, channel, serial_port, ports, meshtastic_ports,
                   possible_ports, probed, lastProbe, detectResult>>
    /\ UNCHANGED <<started, pollHistory, irc_to_mesh, mesh_to_irc, ircHeld,
                   ircExit, meshHeld, meshExit, node_names, radioOpen, pubPc,
                   bridgePc, bridgeResult, chatBudget, meshBudget, chatSeq,
                   meshSeq, meshTaken, ircTaken, ircPut, meshPut, lastRx,
                   lastAck, lastTx, topics, lastChat>>

\* What no step of startup before Bridge::run touches.
relayVars ==
    <<started, pollHistory, irc_to_mesh, mesh_to_irc, ircPc, ircHeld, ircExit,
      meshPc, meshHeld, meshExit, node_names, radioOpen, pubPc, bridgePc,
      bridgeResult, chatBudget, meshBudget, chatSeq, meshSeq, meshTaken,
      ircTaken, ircPut, meshPut, lastRx, lastAck, lastTx, topics, lastChat>>

\* detect_meshtastic_port: available_ports() fails, "Failed to list serial
\* ports".
DetectListFails ==
    /\ mainPc = "start"
    /\ NeedsDetection(serial_port, mqtt)
    /\ mainPc' = "detect"
    /\ detectResult' = [kind |-> "Err", path |-> NoPort]
    /\ UNCHANGED <<mqtt, channel, serial_port, ports, meshtastic_ports,
                   possible_ports, probed, lastProbe>>
    /\ UNCHANGED relayVars

\* detect_meshtastic_port up to its first probe: available_ports() yields
\* list; an empty list is "No serial ports found"; otherwise the ports are
\* sorted into likely and possible candidates, and with no candidate at all
\* both probe loops are empty.
DetectStart(list) ==
    /\ mainPc = "start"
    /\ NeedsDetection(serial_port, mqtt)
    /\ mainPc' = "detect"
    /\ ports' = list
    /\ meshtastic_ports' = LikelyPorts(list)
    /\ possible_ports' = PossiblePorts(list)
    /\ detectResult' =
           IF list = <<>> THEN [kind |-> "Err", path |-> NoPort]
           ELSE IF LikelyPorts(list) = <<>> /\ PossiblePorts(list) = <<>>
           THEN Exhausted(list)
           ELSE NoResult
    /\ UNCHANGED <<mqtt, channel, serial_port, probed, lastProbe>>
    /\ UNCHANGED relayVars

\* One turn of a probe loop: verify_meshtastic_port(&port).await? on the
\* next candidate.  true returns Ok(port); false goes on to the next
\* candidate, and after the last one to the Err at the end.
VerifyPort(outcome) ==
    /\ mainPc = "detect"
    /\ detectResult = NoResult
    /\ meshtastic_ports \o possible_ports # <<>>
    /\ LET port == NextCandidate(meshtastic_ports, possible_ports)
           verified == VerifyMeshtasticPort(outcome)
           likelyLeft == IF meshtastic_ports # <<>>
                         THEN Tail(meshtastic_ports) ELSE <<>>
           possibleLeft == IF meshtastic_ports # <<>>
                           THEN possible_ports ELSE Tail(possible_ports)
       IN /\ probed' = Append(probed, port)
          /\ lastProbe' = [port |-> port, outcome |-> outcome,
                           verified |-> verified]
          /\ IF verified
             THEN /\ detectResult' = [kind |-> "Ok", path |-> port]
                  /\ UNCHANGED <<meshtastic_ports, possible_ports>>
             ELSE /\ meshtastic_ports' = likelyLeft
                  /\ possible_ports' = possibleLeft
                  /\ detectResult' =
                         IF likelyLeft \o possibleLeft = <<>>
                         THEN Exhausted(ports) ELSE NoResult
    /\ UNCHANGED <<mqtt, channel, serial_port, mainPc, ports>>
    /\ UNCHANGED relayVars

\* main: Ok(detected_port) becomes config.meshtastic.serial_port; then
\* Bridge::new(config) and bridge.run().
MainDetectOk ==
    /\ mainPc = "detect"
    /\ detectResult.kind = "Ok"
    /\ serial_port' = detectResult.path
    /\ mainPc' = "bridge"
    /\ ircPc' = "init"
    /\ meshPc' = "init"
    /\ UNCHANGED <<mqtt, channel, ports, meshtastic_ports, possible_ports,
                   probed, lastProbe, detectResult>>
    /\ UNCHANGED <<started, pollHistory, irc_to_mesh, mesh_to_irc, ircHeld,
                   ircExit, meshHeld, meshExit, node_names, radioOpen, pubPc,
                   bridgePc, bridgeResult, chatBudget, meshBudget, chatSeq,
                   meshSeq, meshTaken, ircTaken, ircPut, meshPut, lastRx,
                   lastAck, lastTx, topics, lastChat>>

\* main: Err(e) returns "Failed to auto-detect serial port".
MainDetectErr ==
    /\ mainPc = "detect"
    /\ detectResult.kind = "Err"
    /\ mainPc' = "aborted"
    /\ UNCHANGED <<mqtt, channel, serial_port, ports, meshtastic_ports,
                   possible_ports, probed, lastProbe, detectResult>>
    /\ UNCHANGED relayVars

\* The process starts: the configuration is what the file and the command
\* line give (the mesh channel, which startup does not read, at its default),
\* nothing is spawned yet, the networks deliver nothing.
StartInit ==
    /\ mqtt \in BOOLEAN
    /\ channel = 0
    /\ serial_port \in {NoPort, ConfiguredPort}
    /\ mainPc = "start"
    /\ ports = <<>>
    /\ meshtastic_ports = <<>>
    /\ possible_ports = <<>>
    /\ probed = <<>>
    /\ lastProbe = NoProbe
    /\ detectResult = NoResult
    /\ ircPc = "unspawned"
    /\ meshPc = "unspawned"
    /\ RelayIdle(0, 0)

StartNext ==
    \/ MainConfigured
    \/ DetectListFails
    \/ \E list \in PortLists : DetectStart(list)
    \/ \E outcome \in ProbeOutcomes : VerifyPort(outcome)
    \/ MainDetectOk
    \/ MainDetectErr
    \/ \E ok \in BOOLEAN : IrcNew(ok)
    \/ \E ok \in BOOLEAN : SerialNew(ok)
    \/ MqttNew

StartSpec == StartInit /\ [][StartNext]_vars

(***************************************************************************)
(* What the properties read off a state.                                   *)
(***************************************************************************)
\* The mesh packet the last handled mesh event carried, on either transport:
\* the FromRadio packet, or the packet of a service envelope that decoded.
RxCarriesPacket ==
    \/ lastRx.kind = "packet"
    \/ lastRx.kind = "publish" /\ lastRx.decodes /\ lastRx.has_packet

\* That packet is a decoded text message.
RxIsText ==
    /\ RxCarriesPacket
    /\ lastRx.packet.variant = "decoded"
    /\ lastRx.packet.portnum = TextMessageApp

\* The handler of the last mesh event has returned (it is not suspended in
\* to_irc.send).
RxHandled == meshPc # "send_wait"

\* The ranks of the items a relay queue holds.
Ranks(queue) == {queue[i].n : i \in 1..Len(queue)}

(***************************************************************************)
(* Loop prevention and channel isolation (RxSpec).                         *)
(***************************************************************************)
\* C1: on the serial transport as on the broker transport, a decoded text
\* packet whose text begins with "[IRC-" never puts an item on the
\* mesh-to-chat queue.
C1_LoopPrevention ==
    ( /\ RxIsText
      /\ Utf8Valid(lastRx.packet.payload)
      /\ StartsWith(Utf8Text(lastRx.packet.payload), "[IRC-") )
    => meshPut # "queued"

\* C2: on either transport, a received packet whose channel differs from the
\* configured channel puts nothing on the mesh-to-chat queue.
C2_ChannelIsolation ==
    (RxCarriesPacket /\ lastRx.packet.channel # channel) => meshPut # "queued"

C4_AckAnswersPacket ==
    lastAck.kind = "ack"
    => /\ ~mqtt
       /\ lastRx.kind = "packet"
       /\ lastRx.packet.channel = channel
       /\ lastRx.packet.want_ack
       /\ lastRx.packet.id # 0
       /\ lastAck.packet.variant = "decoded"
       /\ lastAck.packet.portnum = RoutingApp
       /\ lastAck.packet.to = lastRx.packet.from
       /\ lastAck.packet.channel = 0
       /\ lastAck.packet.request_id = lastRx.packet.id
       /\ lastAck.packet.want_ack = FALSE

\* An acknowledgement was written to the radio for a packet received on
\* configured channel 1.
C4_Witness ==
    /\ lastAck.kind = "ack"
    /\ lastAck.ok
    /\ channel = 1
    /\ lastRx.packet.channel = 1
    /\ lastAck.packet.channel = 0

(***************************************************************************)
(* The orchestrator and the end of the tasks (FairSpec, Spec).             *)
(***************************************************************************)
\* C5: in the serial transport, once the stream from the device has ended or
\* a send to the device has failed, the run loop terminates (unless
\* Bridge::run returns first, on the end of the chat task).
C5_SerialLoopTerminates ==
    ( /\ ~mqtt
      /\ meshPc \in {"loop", "send_wait", "sleep"}
      /\ \/ ~radioOpen
         \/ lastTx.kind = "text" /\ ~lastTx.ok
         \/ lastAck.kind = "ack" /\ ~lastAck.ok )
    ~> (meshPc = "ended" \/ bridgePc = "returned")

\* C6: whenever the chat task or the mesh task has ended, Bridge::run
\* eventually returns.
C6_BridgeReturns ==
    (ircPc = "ended" \/ meshPc = "ended") ~> (bridgePc = "returned")

\* Bridge::run has returned after the chat task's loop exited normally,
\* with the mesh task still running.
C6_Witness ==
    /\ bridgePc = "returned"
    /\ ircExit = "run returned Ok"
    /\ meshPc \in {"loop", "send_wait", "sleep"}

\* C7: whenever Bridge::run has returned, its result is the error
\* "Bridge terminated unexpectedly", whichever task ended and however.
C7_NeverSuccess ==
    bridgePc = "returned" => bridgeResult = "Err(Bridge terminated unexpectedly)"

\* Bridge::run has returned although the only task that ended is the chat
\* task, whose run returned Ok.
C7_Witness ==
    /\ bridgePc = "returned"
    /\ ircExit = "run returned Ok"
    /\ meshPc # "ended"
    /\ bridgeResult # "none"

(***************************************************************************)
(* The relay queues (Spec).                                                *)
(***************************************************************************)
\* C8 as stated: neither queue ever holds more than its capacity, a
\* suspended producer whose queue is not full can complete its send, and no
\* send ever ends with its message dropped.
C8_NoLoss ==
    /\ Len(irc_to_mesh) <= QueueCapacity
    /\ Len(mesh_to_irc) <= QueueCapacity
    /\ ircPc = "send_wait"
        => Len(irc_to_mesh) = QueueCapacity \/ ENABLED IrcSendResume
    /\ meshPc = "send_wait"
        => \/ Len(mesh_to_irc) = QueueCapacity
           \/ ENABLED (\E ok \in BOOLEAN : SerialSendResume(ok))
           \/ ENABLED MqttSendResume
    /\ ircPut # "closed"
    /\ meshPut # "closed"

\* C8: neither queue ever holds more than its capacity; a suspended producer
\* whose queue is not full can complete its send; a send ends with its message dropped only
\* when the queue's consumer has ended; and while the consumer is alive every
\* message accepted so far is on the queue, taken off it by the consumer, or
\* held by the suspended producer.
C8_Backpressure ==
    /\ Len(irc_to_mesh) <= QueueCapacity
    /\ Len(mesh_to_irc) <= QueueCapacity
    /\ ircPc = "send_wait"
        => Len(irc_to_mesh) = QueueCapacity \/ ENABLED IrcSendResume
    /\ meshPc = "send_wait"
        => \/ Len(mesh_to_irc) = QueueCapacity
           \/ ENABLED (\E ok \in BOOLEAN : SerialSendResume(ok))
           \/ ENABLED MqttSendResume
    /\ ircPc = "send_wait" => ircHeld.n = chatSeq
    /\ meshPc = "send_wait" => meshHeld.n = meshSeq
    /\ ircPut = "closed" => ~MeshRxAlive
    /\ meshPut = "closed" => ~IrcAlive
    /\ MeshRxAlive =>
        \A k \in 1..chatSeq :
            \/ k <= meshTaken
            \/ k \in Ranks(irc_to_mesh)
            \/ ircPc = "send_wait" /\ ircHeld.n = k
    /\ IrcAlive =>
        \A k \in 1..meshSeq :
            \/ k <= ircTaken
            \/ k \in Ranks(mesh_to_irc)
            \/ meshPc = "send_wait" /\ meshHeld.n = k

\* The chat relay is suspended holding the message that found the
\* chat-to-mesh queue full.
C8_Witness ==
    /\ ircPc = "send_wait"
    /\ Len(irc_to_mesh) = QueueCapacity
    /\ ircHeld.n = QueueCapacity + 1
    /\ MeshRxAlive

\* C9: while the chat relay waits to put a chat message on the full
\* chat-to-mesh queue, a text waiting on the mesh-to-chat queue can still be
\* sent to the chat channel.
C9_SendNotBlockedByReceive ==
    (ircPc = "send_wait" /\ mesh_to_irc # <<>>)
    => ENABLED (\E ok \in BOOLEAN : IrcRecvFromMesh(ok))

\* C10: in each direction the consumer takes the messages in the order the
\* producer received them: every step that transmits a chat message to the
\* mesh, or sends a mesh text to the chat channel, handles a message received
\* later than every message handled before.
C10_OrderPreserved ==
    [][ /\ meshTaken' # meshTaken => meshTaken' > meshTaken
        /\ lastTx' # lastTx => meshTaken' > meshTaken
        /\ ircTaken' # ircTaken => ircTaken' > ircTaken
        /\ lastChat' # lastChat => ircTaken' > ircTaken ]_vars

\* Two chat messages have been transmitted to the mesh and two mesh texts
\* sent to the chat channel.
C10_Witness == meshTaken >= 2 /\ ircTaken >= 2

(***************************************************************************)
(* The chat relay's filter (Spec).                                         *)
(***************************************************************************)
\* C11: a chat event makes the chat relay send {sender, content} on the
\* chat-to-mesh queue if and only if it is a PRIVMSG whose target is the
\* configured channel and whose sender nickname differs from the bridge's
\* current nickname; the item sent carries that nickname and that content,
\* and every other event leaves the queue and the relay as they were.
C11_ChatFilter ==
    [][ \A ev \in ChatEvents :
          IrcStreamMessage(ev) =>
            IF /\ ev.cmd = "PRIVMSG"
               /\ ev.target = IrcChannel
               /\ ev.has_nick
               /\ ev.nick # CurrentNickname
            THEN /\ chatSeq' = chatSeq + 1
                 /\ ircPut' # "none"
                 /\ LET item == [sender |-> ev.nick, content |-> ev.content,
                                 n |-> chatSeq'] IN
                      \/ ircPut' = "queued"
                            /\ irc_to_mesh' = Append(irc_to_mesh, item)
                      \/ ircPut' = "waiting"
                            /\ ircHeld' = item
                            /\ irc_to_mesh' = irc_to_mesh
                      \/ ircPut' = "closed" /\ irc_to_mesh' = irc_to_mesh
            ELSE /\ chatSeq' = chatSeq
                 /\ irc_to_mesh' = irc_to_mesh
                 /\ ircHeld' = ircHeld
                 /\ ircPc' = ircPc ]_vars

\* The queue holds the message of nick "a" on the configured channel, and
\* the relay has handled more events than it accepted.
C11_Witness ==
    /\ \E i \in 1..Len(irc_to_mesh) :
          irc_to_mesh[i].sender = "a" /\ irc_to_mesh[i].content = "x"
    /\ chatSeq = 1
    /\ chatBudget = 0

(***************************************************************************)
(* Encoding for the mesh (Spec).                                           *)
(***************************************************************************)
\* C12: on either transport, every step that hands a chat message
\* {sender, content} to the radio or the broker hands over a decoded
\* text-message packet whose payload is the bytes of
\* "[IRC-{sender}] {content}", addressed to the broadcast address, on the
\* configured channel, with want_ack false and from and id both 0.
C12_EncodedPacket ==
    [][ (lastTx' # lastTx \/ meshTaken' # meshTaken) =>
          LET m == Head(irc_to_mesh)
              p == lastTx'.packet
          IN /\ lastTx'.kind = "text"
             /\ p.variant = "decoded"
             /\ p.portnum = TextMessageApp
             /\ p.payload = AsBytes("[IRC-" \o m.sender \o "] " \o m.content)
             /\ p.to = <<65535, 65535>>
             /\ p.channel = channel
             /\ p.want_ack = FALSE
             /\ p.from = <<0, 0>>
             /\ p.id = 0 ]_vars

\* The broker transport, configured for channel 1, has published the packet
\* of the message "x" of nick "a".
C12_Witness ==
    /\ mqtt
    /\ channel = 1
    /\ lastTx.kind = "text"
    /\ lastTx.packet.payload = <<91, 73, 82, 67, 45, 97, 93, 32, 120>>
    /\ lastTx.packet.channel = 1

\* C13: decoding the payload of the packet encoded for a chat message
\* {sender, content} gives back the text "[IRC-{sender}] {content}": the
\* payload is non-empty valid UTF-8 of a decoded text-message packet, its
\* text is that string, and the packet's channel is the configured channel.
C13_RoundTrip ==
    [][ lastTx' # lastTx =>
          LET m == Head(irc_to_mesh)
              p == lastTx'.packet
          IN /\ p.variant = "decoded"
             /\ p.portnum = TextMessageApp
             /\ Len(p.payload) > 0
             /\ Utf8Valid(p.payload)
             /\ Utf8Text(p.payload) = "[IRC-" \o m.sender \o "] " \o m.content
             /\ p.channel = channel ]_vars

\* The serial transport, configured for channel 1, has written the packet of
\* the message "x" of nick "b", whose payload decodes to "[IRC-b] x".
C13_Witness ==
    /\ ~mqtt
    /\ channel = 1
    /\ lastTx.kind = "text"
    /\ Utf8Text(lastTx.packet.payload) = "[IRC-b] x"
    /\ lastTx.packet.channel = 1

(***************************************************************************)
(* Rendering for the chat channel (RxSpec).                                *)
(***************************************************************************)
\* C14: on either transport, whenever handling a mesh event puts an item on
\* the mesh-to-chat queue (or holds it for a full queue), the event carries a
\* decoded text-message packet with non-empty valid UTF-8 payload, and the
\* item is "[mesh-{sender}]: {text}" with {text} the payload's text and
\* {sender} the directory's short name for packet.from if it has one at that
\* moment, else packet.from as 8 zero-padded lowercase hex digits.
C14_MeshItemFormat ==
    [][ meshSeq' # meshSeq =>
          LET p == lastRx'.packet
              hex == CASE p.from = <<0, 43981>> -> "0000abcd"
                       [] p.from = <<4660, 22136>> -> "12345678"
                       [] OTHER -> "?"
              sender == IF p.from \in DOMAIN node_names
                        THEN node_names[p.from] ELSE hex
              item == "[mesh-" \o sender \o "]: " \o Utf8Text(p.payload)
          IN /\ lastRx'.kind \in {"packet", "publish"}
             /\ p.variant = "decoded"
             /\ p.portnum = TextMessageApp
             /\ Len(p.payload) > 0
             /\ Utf8Valid(p.payload)
             /\ meshPut' = "queued" =>
                    mesh_to_irc' = Append(mesh_to_irc,
                                          [text |-> item, n |-> meshSeq'])
             /\ meshPut' = "waiting" => meshHeld'.message = item ]_vars

\* Text "hi" from node 0x0000abcd with no known name is on the queue as
\* "[mesh-0000abcd]: hi", followed by the same text from node 0x12345678.
C14_Witness ==
    /\ Len(mesh_to_irc) = 2
    /\ mesh_to_irc[1].text = "[mesh-0000abcd]: hi"
    /\ mesh_to_irc[2].text = "[mesh-12345678]: hi"

\* C15: the serial transport renders a text from node n with what the
\* NodeInfo packets received so far say: a NodeInfo for n with a user and a
\* non-empty short name makes that name n's entry (replacing an earlier one),
\* nothing else changes the directory, and a text from n is rendered with
\* n's entry if there is one and with n's 8 hex digits if none has arrived.
C15_NameResolution ==
    [][ IF ~mqtt /\ meshBudget' # meshBudget
        THEN LET ev == lastRx' IN
             /\ ev.kind = "node_info" /\ ev.has_user /\ ev.short_name # ""
                  => /\ DOMAIN node_names' = DOMAIN node_names \cup {ev.num}
                     /\ node_names'[ev.num] = ev.short_name
                     /\ \A k \in DOMAIN node_names \ {ev.num} :
                            node_names'[k] = node_names[k]
             /\ ~(ev.kind = "node_info" /\ ev.has_user /\ ev.short_name # "")
                  => node_names' = node_names
             /\ meshSeq' # meshSeq
                  => LET sender ==
                             IF ev.packet.from \in DOMAIN node_names
                             THEN node_names[ev.packet.from]
                             ELSE CASE ev.packet.from = <<0, 43981>> -> "0000abcd"
                                    [] ev.packet.from = <<4660, 22136>> -> "12345678"
                                    [] OTHER -> "?"
                         item == "[mesh-" \o sender \o "]: "
                                     \o Utf8Text(ev.packet.payload)
                     IN \/ meshPut' = "queued"
                              /\ mesh_to_irc'[Len(mesh_to_irc')].text = item
                        \/ meshPut' = "waiting" /\ meshHeld'.message = item
                        \/ meshPut' = "closed"
        ELSE node_names' = node_names ]_vars

\* A text from node 0x0000abcd was rendered with the hex form, then a
\* NodeInfo named the node "N1", then its next text was rendered with "N1".
C15_Witness ==
    /\ ~mqtt
    /\ Len(mesh_to_irc) = 2
    /\ mesh_to_irc[1].text = "[mesh-0000abcd]: hi"
    /\ mesh_to_irc[2].text = "[mesh-N1]: hi"
    /\ node_names[<<0, 43981>>] = "N1"

(***************************************************************************)
(* The choice of the mesh transport (RxSpec).                              *)
(***************************************************************************)
\* C16: at most one mesh transport is ever started, and once the mesh task
\* has started its handler it is the broker transport if a broker
\* configuration is present (also when a serial path is configured as well)
\* and the serial transport otherwise.
C16_OneTransport ==
    /\ started \in {{}, {"serial"}, {"broker"}}
    /\ meshPc # "init" => started = IF mqtt THEN {"broker"} ELSE {"serial"}
    /\ meshPc = "init" => started = {}

\* Broker and serial path are both configured, and the broker transport has
\* been started and has relayed a text.
C16_Witness ==
    /\ mqtt
    /\ serial_port # NoPort
    /\ started = {"broker"}
    /\ meshSeq > 0

(***************************************************************************)
(* Delivery under fair scheduling (FairSpec).                              *)
(***************************************************************************)
\* C17: once the chat relay has accepted its k-th chat message while the
\* mesh transport is running, the mesh side eventually transmits that
\* message, unless the consumer of the chat-to-mesh queue ends first.
C17_ChatMessageTransmitted ==
    \A k \in 1..MaxChatEvents :
        ( /\ chatSeq >= k
          /\ IF mqtt THEN pubPc = "loop"
                     ELSE meshPc \in {"loop", "send_wait", "sleep"} )
        ~> (meshTaken >= k \/ ~MeshRxAlive)

\* C18: once the k-th accepted mesh text is on the mesh-to-chat queue while
\* the chat relay is running, the chat relay eventually takes it and sends it
\* to the chat channel, unless the chat relay ends first.
C18_MeshTextSent ==
    \A k \in 1..MaxMeshEvents :
        (k \in Ranks(mesh_to_irc) /\ ircPc \in {"loop", "send_wait"})
        ~> (ircTaken >= k \/ ~IrcAlive)

\* C19: in the broker transport a failed poll never ends the run loop.  Once
\* the subscription has succeeded the mesh task is in its loop, in a suspended
\* queue send or in the backoff sleep, never ended; from the backoff sleep it
\* can always wake, and it leaves the sleep only to poll again; and after a
\* poll error every event a poll can yield is still taken and handled as
\* before: a publish on the topic that carries a decoded, non-empty, valid
\* UTF-8 text not starting with "[IRC-" is counted and sent to the
\* mesh-to-chat queue, anything else is dropped.
C19_PollErrorRetried ==
    /\ [](mqtt /\ pubPc # "none" =>
             meshPc \in {"loop", "send_wait", "sleep"} /\ meshExit = "-")
    /\ [](mqtt /\ meshPc = "sleep" => ENABLED MqttBackoffDone)
    /\ [][ mqtt /\ meshPc = "sleep" /\ meshPc' # "sleep" =>
              meshPc' = "loop" /\ meshBudget' = meshBudget ]_vars
    /\ [](mqtt /\ pollHistory # "none" /\ meshPc = "loop" /\ meshBudget > 0 =>
             \A ev \in BrokerEvents : ENABLED MqttPoll(ev))
    /\ [][ \A ev \in BrokerEvents :
              pollHistory # "none" /\ MqttPoll(ev) =>
                LET p == ev.packet
                    text == /\ ev.kind = "publish"
                            /\ ev.topic = Topic
                            /\ ev.decodes
                            /\ ev.has_packet
                            /\ p.variant = "decoded"
                            /\ p.portnum = TextMessageApp
                            /\ Len(p.payload) > 0
                            /\ Utf8Valid(p.payload)
                            /\ ~StartsWith(Utf8Text(p.payload), "[IRC-")
                IN /\ lastRx' = ev
                   /\ meshPc' \in {"loop", "send_wait"}
                   /\ IF text
                      THEN /\ meshSeq' = meshSeq + 1
                           /\ meshPut' \in {"queued", "waiting", "closed"}
                           /\ meshPut' = "queued" =>
                                  /\ Len(mesh_to_irc') = Len(mesh_to_irc) + 1
                                  /\ mesh_to_irc'[Len(mesh_to_irc')].n = meshSeq'
                           /\ meshPut' = "waiting" => meshHeld'.n = meshSeq'
                      ELSE /\ meshSeq' = meshSeq
                           /\ mesh_to_irc' = mesh_to_irc
                           /\ meshPc' = "loop" ]_vars

\* A poll failed, the transport slept and polled again, and the publish that
\* poll yielded (text "hi" from node 0x0000abcd) is on the mesh-to-chat queue.
C19_Witness ==
    /\ mqtt
    /\ pollHistory = "polled"
    /\ meshBudget = MaxMeshEvents - 2
    /\ meshPc = "loop"
    /\ lastRx.kind = "publish"
    /\ meshSeq = 1
    /\ Len(mesh_to_irc) = 1
    /\ mesh_to_irc[1].text = "[mesh-0000abcd]: hi"

\* C20: a failed per-message send is swallowed.  A step whose chat send, mesh
\* send or acknowledgement send fails leaves the task that made it in its
\* loop, not ended; in the state after such a failure the next queued message
\* (or the next mesh event) can still be taken; and the message taken right
\* after a failure is handled as any other: the oldest item of the queue is
\* removed and sent, a mesh text on the configured channel is counted.
C20_SendFailureSwallowed ==
    /\ [][ /\ ircTaken' # ircTaken /\ ~lastChat'.ok =>
                ircPc' = "loop" /\ ircExit' = "-"
           /\ meshTaken' # meshTaken /\ ~lastTx'.ok =>
                /\ meshExit' = "-"
                /\ IF mqtt THEN pubPc' = "loop" /\ meshPc' = meshPc
                           ELSE meshPc' = "loop"
           /\ ( /\ Len(mesh_to_irc') > Len(mesh_to_irc)
                /\ lastAck'.kind = "ack"
                /\ ~lastAck'.ok ) =>
                meshPc' = "loop" /\ meshExit' = "-" ]_vars
    /\ []( /\ ( /\ ircTaken > 0 /\ ~lastChat.ok
                /\ ircPc = "loop" /\ mesh_to_irc # <<>> ) =>
                ENABLED IrcRecvFromMesh(TRUE)
           /\ ( /\ meshTaken > 0 /\ ~lastTx.ok /\ irc_to_mesh # <<>>
                /\ IF mqtt THEN pubPc = "loop" ELSE meshPc = "loop" ) =>
                IF mqtt THEN ENABLED MqttRecvFromIrc(TRUE)
                        ELSE ENABLED SerialRecvFromIrc(TRUE)
           /\ ( /\ lastAck.kind = "ack" /\ ~lastAck.ok /\ meshPc = "loop" ) =>
                /\ radioOpen /\ meshBudget > 0 =>
                       \A ev \in CoreRadioEvents :
                           ENABLED SerialRecvRadio(ev, TRUE)
                /\ irc_to_mesh # <<>> => ENABLED SerialRecvFromIrc(TRUE) )
    /\ [][ /\ ( /\ ircTaken > 0 /\ ~lastChat.ok /\ ircTaken' # ircTaken ) =>
                /\ mesh_to_irc # <<>>
                /\ ircTaken' = Head(mesh_to_irc).n
                /\ lastChat'.text = Head(mesh_to_irc).text
                /\ mesh_to_irc' = Tail(mesh_to_irc)
           /\ ( /\ meshTaken > 0 /\ ~lastTx.ok /\ meshTaken' # meshTaken ) =>
                /\ irc_to_mesh # <<>>
                /\ meshTaken' = Head(irc_to_mesh).n
                /\ lastTx'.text = "[IRC-" \o Head(irc_to_mesh).sender
                                    \o "] " \o Head(irc_to_mesh).content
                /\ irc_to_mesh' = Tail(irc_to_mesh)
           /\ ( /\ lastAck.kind = "ack" /\ ~lastAck.ok
                /\ meshBudget' # meshBudget ) =>
                /\ meshPc' \in {"loop", "send_wait"}
                /\ ( /\ lastRx'.kind = "packet"
                     /\ lastRx'.packet.channel = channel
                     /\ lastRx'.packet.variant = "decoded"
                     /\ lastRx'.packet.portnum = TextMessageApp
                     /\ Len(lastRx'.packet.payload) > 0
                     /\ Utf8Valid(lastRx'.packet.payload) )
                   <=> meshSeq' = meshSeq + 1 ]_vars

\* On the serial transport all three sends have just failed (the chat send of
\* the first mesh text, the radio write of the first chat message, the
\* acknowledgement of the second mesh text), both tasks are in their loops
\* and each has the next message waiting on its queue.
C20_Witness ==
    /\ ~mqtt
    /\ ircPc = "loop"
    /\ meshPc = "loop"
    /\ ircTaken = 1 /\ ~lastChat.ok
    /\ meshTaken = 1 /\ lastTx.kind = "text" /\ ~lastTx.ok
    /\ lastAck.kind = "ack" /\ ~lastAck.ok
    /\ Len(mesh_to_irc) = 1 /\ mesh_to_irc[1].n = 2
    /\ Len(irc_to_mesh) = 1 /\ irc_to_mesh[1].n = 2
    /\ meshBudget > 0

(***************************************************************************)
(* Items that are not relayed.                                             *)
(***************************************************************************)
\* C21: on either transport, handling a received item that is malformed or
\* not relay-eligible (a packet on another channel than the configured one, a
\* packet that is not a decoded text message, a text that is not valid UTF-8,
\* a publish whose payload does not decode as a service envelope) puts nothing
\* on the mesh-to-chat queue and holds nothing for it, sends no
\* acknowledgement, leaves the node directory as it was, and leaves the
\* transport in its loop.
C21_MalformedSkipped ==
    [][ \A ev \in RadioEvents \cup BrokerEvents :
          LET p == ev.packet
              carries == \/ ev.kind = "packet"
                         \/ ev.kind = "publish" /\ ev.decodes /\ ev.has_packet
              notEligible ==
                  \/ ev.kind = "publish" /\ ~ev.decodes
                  \/ /\ carries
                     /\ \/ p.channel # channel
                        \/ p.variant # "decoded"
                        \/ p.portnum # TextMessageApp
                        \/ ~Utf8Valid(p.payload)
              handled == \/ \E ok \in BOOLEAN : SerialRecvRadio(ev, ok)
                         \/ MqttPoll(ev)
          IN (notEligible /\ handled) =>
                /\ meshSeq' = meshSeq
                /\ mesh_to_irc' = mesh_to_irc
                /\ meshHeld' = meshHeld
                /\ lastAck'.kind # "ack"
                /\ node_names' = node_names
                /\ meshPc' = "loop" ]_vars

(***************************************************************************)
(* Device discovery and startup (StartSpec).                               *)
(***************************************************************************)
\* C22: the paths probed so far are always the first ones of the probe order
\* of the listed ports: the likely candidates in the order listed, then the
\* possible candidates in the order listed, ports with "Bluetooth" in their
\* name left out.  So no possible candidate is probed before a likely one,
\* none is probed twice and no Bluetooth port is probed.  A probe that
\* verifies returns its path at once, and after discovery has returned a
\* path nothing more is probed.
C22_ProbeOrder ==
    /\ [] LET Likely(info) == /\ ~Contains(info.port_name, "Bluetooth")
                              /\ IsLikelyMeshtastic(info)
              Possible(info) == /\ ~Contains(info.port_name, "Bluetooth")
                                /\ ~IsLikelyMeshtastic(info)
                                /\ IsPossibleMeshtastic(info)
              order == PortNames(SelectSeq(ports, Likely))
                          \o PortNames(SelectSeq(ports, Possible))
          IN /\ Len(probed) <= Len(order)
             /\ \A i \in 1..Len(probed) : probed[i] = order[i]
             /\ \A i, j \in 1..Len(probed) : i # j => probed[i] # probed[j]
             /\ \A i \in 1..Len(probed) : ~Contains(probed[i], "Bluetooth")
             /\ detectResult.kind = "Ok" =>
                    /\ probed # <<>>
                    /\ detectResult.path = probed[Len(probed)]
    /\ [][ detectResult.kind = "Ok" => probed' = probed ]_vars
    /\ [][ probed' # probed =>
             /\ detectResult = NoResult
             /\ Len(probed') = Len(probed) + 1
             /\ lastProbe'.port = probed'[Len(probed')]
             /\ lastProbe'.verified =>
                    detectResult' = [kind |-> "Ok", path |-> lastProbe'.port]
           ]_vars

\* The ports are listed as a CH340 (possible), a Bluetooth port and a RAK4631
\* (likely); the RAK4631 was probed first and did not verify, the CH340 was
\* probed next, verified and is the path returned.
C22_Witness ==
    /\ PortNames(ports) = <<"/dev/ttyUSB1", "/dev/cu.Bluetooth-Incoming-Port",
                            "/dev/ttyACM0">>
    /\ probed = <<"/dev/ttyACM0", "/dev/ttyUSB1">>
    /\ detectResult = [kind |-> "Ok", path |-> "/dev/ttyUSB1"]

\* C23: a probe verifies its port exactly when the port opened, the connect
\* completed and the first envelope that arrived in time is a device
\* identity (MyInfo), node identity (NodeInfo), device config or data packet.
\* A probe that does not verify returns no path and does not end startup:
\* discovery stays in its loops, and while a candidate is left the next one
\* can be probed.
C23_VerifiedOnlyByEnvelope ==
    /\ [][ \A outcome \in ProbeOutcomes :
             VerifyPort(outcome) =>
               /\ lastProbe'.outcome = outcome
               /\ lastProbe'.verified <=>
                      outcome \in {"my_info", "node_info", "config", "packet"}
               /\ detectResult'.kind = "Ok" <=> lastProbe'.verified
               /\ mainPc' = "detect"
               /\ ( /\ ~lastProbe'.verified
                    /\ meshtastic_ports' \o possible_ports' # <<>> ) =>
                      detectResult' = NoResult ]_vars
    /\ []( (mainPc = "detect" /\ detectResult = NoResult) =>
             /\ meshtastic_ports \o possible_ports # <<>>
             /\ \A outcome \in ProbeOutcomes : ENABLED VerifyPort(outcome) )

\* The first candidate did not verify, discovery went on to the second, and
\* that one answered with a NodeInfo and verified.
C23_Witness ==
    /\ probed = <<"/dev/ttyACM0", "/dev/ttyUSB0">>
    /\ lastProbe = [port |-> "/dev/ttyUSB0", outcome |-> "node_info",
                    verified |-> TRUE]
    /\ detectResult.kind = "Ok"

\* C24: discovery returns a path only from a probe that verified, and the
\* path is that probe's port, the last one probed; no probe is made after a
\* return, so no earlier probe verified.  Once discovery has run, it has
\* ended with an error exactly when every candidate of the listed ports (none
\* when nothing is listed) has been probed and the last probe, if any, did
\* not verify.  Startup is aborted only on such an error.
C24_FirstVerifiedOrError ==
    /\ [] LET Likely(info) == /\ ~Contains(info.port_name, "Bluetooth")
                              /\ IsLikelyMeshtastic(info)
              Possible(info) == /\ ~Contains(info.port_name, "Bluetooth")
                                /\ ~IsLikelyMeshtastic(info)
                                /\ IsPossibleMeshtastic(info)
              candidates == PortNames(SelectSeq(ports, Likely))
                               \o PortNames(SelectSeq(ports, Possible))
          IN /\ detectResult.kind = "Ok" =>
                    /\ lastProbe.verified
                    /\ detectResult.path = lastProbe.port
                    /\ detectResult.path = probed[Len(probed)]
                    /\ detectResult.path \in
                           {candidates[i] : i \in 1..Len(candidates)}
             /\ mainPc \in {"detect", "aborted"} =>
                    ( detectResult.kind = "Err" <=>
                          (probed = candidates /\ ~lastProbe.verified) )
             /\ detectResult.kind = "Err" => detectResult.path = NoPort
             /\ mainPc = "aborted" => detectResult.kind = "Err"
    /\ [][ probed' # probed => detectResult = NoResult ]_vars
    /\ [][ detectResult # NoResult => detectResult' = detectResult ]_vars

\* Two candidates were listed, both were probed, the last probe ran into the
\* connect timeout, and discovery has ended with an error.
C24_Witness ==
    /\ PortNames(ports) = <<"/dev/ttyUSB1", "/dev/ttyS0", "/dev/ttyACM0">>
    /\ probed = <<"/dev/ttyACM0", "/dev/ttyUSB1">>
    /\ lastProbe.outcome = "connect timeout"
    /\ detectResult = [kind |-> "Err", path |-> NoPort]

\* C25: main leaves its start for discovery exactly when the configuration
\* has neither a serial path nor a broker, and for Bridge::run otherwise.
\* Nothing is spawned before Bridge::run is called, so when discovery fails
\* and main returns the error the chat relay and the mesh transports were
\* never started.  When discovery succeeds, Bridge::run starts with the
\* returned path as the serial path, no broker is configured, and the mesh
\* transport that starts is the serial one.
C25_DiscoveryAtStartup ==
    /\ [][ (mainPc = "start" /\ mainPc' # "start") =>
             IF serial_port = NoPort /\ ~mqtt
             THEN mainPc' = "detect"
             ELSE /\ mainPc' = "bridge"
                  /\ serial_port' = serial_port
                  /\ detectResult' = NoResult /\ probed' = <<>> ]_vars
    /\ []( mainPc \in {"detect", "aborted"} => serial_port = NoPort /\ ~mqtt )
    /\ []( mainPc # "bridge" =>
             /\ ircPc = "unspawned"
             /\ meshPc = "unspawned"
             /\ started = {} )
    /\ []( mainPc = "aborted" => detectResult.kind = "Err" )
    /\ [][ mainPc = "aborted" => mainPc' = "aborted" ]_vars
    /\ [][ (mainPc = "detect" /\ mainPc' # "detect") =>
             IF detectResult.kind = "Ok"
             THEN /\ mainPc' = "bridge"
                  /\ serial_port' = detectResult.path
                  /\ ircPc' = "init" /\ meshPc' = "init"
             ELSE /\ detectResult.kind = "Err"
                  /\ mainPc' = "aborted" ]_vars
    /\ []( (mainPc = "bridge" /\ detectResult.kind = "Ok") =>
             /\ ~mqtt
             /\ serial_port = detectResult.path
             /\ serial_port # NoPort
             /\ started \subseteq {"serial"}
             /\ meshPc # "init" => started = {"serial"} )

\* Nothing was configured, discovery returned /dev/ttyACM0, and the serial
\* transport has started with that path as its serial path.
C25_Witness ==
    /\ ~mqtt
    /\ mainPc = "bridge"
    /\ detectResult = [kind |-> "Ok", path |-> "/dev/ttyACM0"]
    /\ serial_port = "/dev/ttyACM0"
    /\ started = {"serial"}
    /\ meshPc = "loop"

(***************************************************************************)
(* The node directory and the broker's topic (RxSpec).                     *)
(***************************************************************************)
\* C26: the node directory changes only when the serial transport handles a
\* NodeInfo (the step that takes an event off the radio stream, the event
\* being a NodeInfo) that has a user with a non-empty short name: that step makes the
\* short name the entry of the NodeInfo's node and leaves every other entry
\* as it was.  Every other step (a NodeInfo without user or with an empty
\* short name, any other event, any step of another task) leaves the
\* directory as it was, so no entry is ever removed.  Handling a NodeInfo,
\* named or not, puts nothing on the mesh-to-chat queue and holds nothing
\* for it.
C26_DirectoryUpsertOnly ==
    [][ LET handled == ~mqtt /\ meshBudget' # meshBudget
            ev == lastRx'
            named == /\ handled
                     /\ ev.kind = "node_info"
                     /\ ev.has_user
                     /\ ev.short_name # ""
        IN /\ named =>
                /\ DOMAIN node_names' = DOMAIN node_names \cup {ev.num}
                /\ node_names'[ev.num] = ev.short_name
                /\ \A k \in DOMAIN node_names \ {ev.num} :
                       node_names'[k] = node_names[k]
           /\ ~named => node_names' = node_names
           /\ DOMAIN node_names \subseteq DOMAIN node_names'
           /\ (handled /\ ev.kind = "node_info") =>
                /\ mesh_to_irc' = mesh_to_irc
                /\ meshHeld' = meshHeld
                /\ meshSeq' = meshSeq
                /\ meshPut' = "none"
                /\ meshPc' = "loop" ]_vars

\* The serial transport has just handled a NodeInfo naming node 0x0000abcd
\* "N2" while node 0x12345678 was already in the directory: both entries are
\* there, and nothing is on the mesh-to-chat queue.
C26_Witness ==
    /\ ~mqtt
    /\ lastRx.kind = "node_info"
    /\ lastRx.num = <<0, 43981>>
    /\ lastRx.short_name = "N2"
    /\ DOMAIN node_names = {<<0, 43981>>, <<4660, 22136>>}
    /\ node_names[<<0, 43981>>] = "N2"
    /\ node_names[<<4660, 22136>>] = "N2"
    /\ mesh_to_irc = <<>>

(***************************************************************************)
(* The broker transport does not relay its own publications.               *)
(***************************************************************************)
\* C27: the broker transport publishes to the topic it subscribed to, and a
\* step in which the main loop handles a publish on that topic carrying the
\* packet the transport itself published (its text starts with "[IRC-")
\* puts nothing on the mesh-to-chat queue, holds nothing for it and counts
\* no accepted text.
C27_NoEcho ==
    /\ [](topics.published # "" =>
            /\ topics.published = "meshtastic/2/e/#"
            /\ topics.subscribed = "meshtastic/2/e/#")
    /\ [][ ( /\ MqttPoll(lastRx')
             /\ lastTx.kind = "text"
             /\ lastRx'.kind = "publish"
             /\ lastRx'.topic = topics.subscribed
             /\ lastRx'.decodes
             /\ lastRx'.has_packet
             /\ lastRx'.packet = lastTx.packet ) =>
           /\ StartsWith(Utf8Text(lastRx'.packet.payload), "[IRC-")
           /\ mesh_to_irc' = mesh_to_irc
           /\ meshHeld' = meshHeld
           /\ meshSeq' = meshSeq
           /\ meshPut' = "none"
           /\ meshPc' = "loop" ]_vars

\* The chat message "x" of "a" was published as "[IRC-a] x" and came back in
\* a poll of the same session; the mesh-to-chat queue is empty and no mesh
\* text was ever accepted.
C27_Witness ==
    /\ mqtt
    /\ lastTx.kind = "text"
    /\ lastTx.ok
    /\ lastTx.text = "[IRC-a] x"
    /\ lastRx.kind = "publish"
    /\ lastRx.topic = "meshtastic/2/e/#"
    /\ lastRx.packet = lastTx.packet
    /\ lastRx.packet.payload = <<91, 73, 82, 67, 45, 97, 93, 32, 120>>
    /\ meshSeq = 0
    /\ mesh_to_irc = <<>>

(***************************************************************************)
(* The two relay queues and their two consumers.                           *)
(***************************************************************************)
\* C28: in the serial configuration no reachable state has the chat relay
\* suspended in its send on a full chat-to-mesh queue while the serial
\* transport is suspended in its send on a full mesh-to-chat queue, where
\* neither send can complete.
C28_NoQueueDeadlock ==
    ~( /\ ~mqtt
       /\ ircPc = "send_wait"
       /\ Len(irc_to_mesh) = QueueCapacity
       /\ meshPc = "send_wait"
       /\ Len(mesh_to_irc) = QueueCapacity
       /\ ~ENABLED IrcSendResume
       /\ ~ENABLED (\E ok \in BOOLEAN : SerialSendResume(ok)) )

(***************************************************************************)
(* The serial transport acknowledges after the queue took the text.        *)
(***************************************************************************)
\* C29: in the serial transport a step sends an acknowledgement only if that
\* same step put the acknowledged packet's text at the back of the
\* mesh-to-chat queue and left the transport in its loop; while a text waits
\* for space on the full queue no acknowledgement has been sent for it, and
\* none has been sent when the send failed because the chat side is gone.
C29_AckAfterQueued ==
    /\ [](~mqtt /\ meshPc = "send_wait" => lastAck.kind = "none")
    /\ [](~mqtt /\ meshPut \in {"waiting", "closed"} => lastAck.kind = "none")
    /\ [][ LET resumed == \E ok \in BOOLEAN : SerialSendResume(ok)
               handled == \E ok \in BOOLEAN : SerialRecvRadio(lastRx', ok)
               n == IF resumed THEN meshHeld.n ELSE meshSeq + 1
               p == lastRx'.packet
           IN ((resumed \/ handled) /\ lastAck'.kind = "ack") =>
                /\ Len(mesh_to_irc) < QueueCapacity
                /\ Len(mesh_to_irc') = Len(mesh_to_irc) + 1
                /\ SubSeq(mesh_to_irc', 1, Len(mesh_to_irc)) = mesh_to_irc
                /\ mesh_to_irc'[Len(mesh_to_irc')].n = n
                /\ StartsWith(mesh_to_irc'[Len(mesh_to_irc')].text, "[mesh-")
                /\ meshPut' = "queued"
                /\ meshPc' = "loop"
                /\ meshHeld'.forward = FALSE
                /\ ircPc \in {"init", "loop", "send_wait"}
                /\ p.want_ack
                /\ p.id # 0
                /\ lastAck'.packet.request_id = p.id
                /\ lastAck'.packet.to = p.from ]_vars

\* The text of packet 7 waited for space on the full queue, the chat relay
\* took an item, the send completed and the acknowledgement for packet 7 to
\* node 0x0000abcd went out: the text is at the back of the queue.
C29_Witness ==
    /\ ~mqtt
    /\ lastAck.kind = "ack"
    /\ lastAck.packet.request_id = 7
    /\ lastAck.packet.to = <<0, 43981>>
    /\ meshPut = "queued"
    /\ meshSeq = 3
    /\ ircTaken = 1
    /\ Len(mesh_to_irc) = 2
    /\ mesh_to_irc[2].n = 3

(***************************************************************************)
(* The broker transport compares topics as strings.                        *)
(***************************************************************************)
\* C30: the broker transport relays a publish only if its topic is the
\* configured topic string "meshtastic/2/e/#" itself: a step that handles a
\* publish on any other topic, one that the configured string would match as
\* a wildcard filter included, puts nothing on the mesh-to-chat queue, holds
\* nothing for it and accepts no text; a step that accepts a text has handled
\* a publish on exactly the configured topic.
C30_ExactTopic ==
    [][ MqttPoll(lastRx') =>
          /\ (lastRx'.kind = "publish" /\ lastRx'.topic # "meshtastic/2/e/#") =>
                /\ mesh_to_irc' = mesh_to_irc
                /\ meshHeld' = meshHeld
                /\ meshSeq' = meshSeq
                /\ meshPut' = "none"
                /\ meshPc' = "loop"
          /\ (meshSeq' # meshSeq \/ mesh_to_irc' # mesh_to_irc) =>
                /\ lastRx'.kind = "publish"
                /\ lastRx'.topic = "meshtastic/2/e/#" ]_vars

\* The broker delivered the text "hi" of node 0x0000abcd on the configured
\* channel under the topic "meshtastic/2/e/LongFast/!a"; nothing was accepted
\* or queued.
C30_Witness ==
    /\ mqtt
    /\ lastRx.kind = "publish"
    /\ lastRx.topic = "meshtastic/2/e/LongFast/!a"
    /\ StartsWith(lastRx.topic, "meshtastic/2/e/")
    /\ lastRx.decodes
    /\ lastRx.has_packet
    /\ lastRx.packet.channel = channel
    /\ lastRx.packet.variant = "decoded"
    /\ lastRx.packet.portnum = 1
    /\ lastRx.packet.payload = <<104, 105>>
    /\ meshSeq = 0
    /\ meshPut = "none"
    /\ mesh_to_irc = <<>>

(***************************************************************************)
(* The broker transport keeps no directory.                                *)
(***************************************************************************)
\* C31: while the broker transport runs, its node directory is empty in
\* every state, whatever was polled, a peer's announcement included; every
\* text it holds for the mesh-to-chat queue, has put on it, or that reached
\* the chat channel names its sender by the 8 hex digits of the node id, and
\* the step that accepts a text renders the id of that packet's sender.
C31_BrokerDirectoryEmpty ==
    /\ [](LET HexTexts == {"[mesh-0000abcd]: hi", "[mesh-12345678]: hi"}
          IN mqtt =>
               /\ DOMAIN node_names = {}
               /\ \A i \in 1..Len(mesh_to_irc) :
                      mesh_to_irc[i].text \in HexTexts
               /\ meshHeld.forward => meshHeld.message \in HexTexts
               /\ lastChat.text \in HexTexts \cup {""})
    /\ [][ (MqttPoll(lastRx') /\ meshSeq' # meshSeq) =>
           LET want == IF lastRx'.packet.from = <<0, 43981>>
                       THEN "[mesh-0000abcd]: hi"
                       ELSE "[mesh-12345678]: hi"
           IN /\ lastRx'.packet.from \in {<<0, 43981>>, <<4660, 22136>>}
              /\ meshPut' = "queued" =>
                    mesh_to_irc'[Len(mesh_to_irc')].text = want
              /\ meshPut' = "waiting" => meshHeld'.message = want ]_vars

\* The broker transport forwarded the text "hi" of node 0x0000abcd as
\* "[mesh-0000abcd]: hi" and has just polled that node's announcement of the
\* short name "N1": the directory is still empty.
C31_Witness ==
    /\ mqtt
    /\ lastRx.kind = "publish"
    /\ lastRx.topic = "meshtastic/2/e/#"
    /\ lastRx.packet.portnum = 4
    /\ lastRx.packet.from = <<0, 43981>>
    /\ lastRx.packet.channel = channel
    /\ DOMAIN node_names = {}
    /\ meshSeq = 1
    /\ Len(mesh_to_irc) = 1
    /\ mesh_to_irc[1].text = "[mesh-0000abcd]: hi"

====
